---- MODULE Spec2Model ----
(***************************************************************************)
(* A model of dump-scribe's diagnostic engine (AnalysisEngine, the fuller  *)
(* version with evidence, deadlockInfo, heapAnalysis and stackAnalysis).   *)
(*                                                                         *)
(* A snapshot (AnalysisData) is drawn in Init from bounded families of     *)
(* well-typed inputs; the action AnalyzeData is one call of                *)
(* AnalysisEngine.analyzeData on it, whose result is appended to results.  *)
(* A second specification, UploadSpec, is the upload flow of               *)
(* MemoryDumpAnalyzer: DumpParser.parseFile, then the engine, then the     *)
(* component's state; UploadLiveSpec adds that a pending call ends.        *)
(* StageSpec runs the stages of performCrashAnalysis as separate tasks,    *)
(* in any order.  FileUploadSpec is the upload flow as the user can drive  *)
(* it: FileUpload's handleFile, its progress timer, and the Dashboard's    *)
(* reset.                                                                  *)
(*                                                                         *)
(* Conventions:                                                            *)
(*  - JavaScript strings are TLA+ strings, read character by character     *)
(*    with Len and SubSeq;                                                 *)
(*  - an optional field f?: T is a sequence of zero elements (undefined)   *)
(*    or of one element (the value);                                       *)
(*  - a JavaScript number that may be fractional or NaN is a record        *)
(*    [nan, num, den] (see Num);                                           *)
(*  - a stack trace is represented by its number of frames, the only       *)
(*    thing the engine reads of it.                                        *)
(***************************************************************************)
EXTENDS Integers, Sequences, FiniteSets, TLC

VARIABLES
    snapshot,       \* the snapshot handed to the engine (AnalysisData)
    results,        \* what the successive calls analyzeData(snapshot) returned
    files,          \* the files the user uploads, in the order of the calls
    uploads,        \* the calls of handleFileUpload so far
    currentFile,    \* MemoryDumpAnalyzer's state currentFile
    analysisData,   \* MemoryDumpAnalyzer's state analysisData
    isAnalyzing,    \* MemoryDumpAnalyzer's state isAnalyzing
    slots,          \* what each stage of performCrashAnalysis has computed
    handled,        \* the calls of FileUpload's handleFile so far
    uploadProgress, \* FileUpload's state uploadProgress
    timers          \* the intervals started by handleFile and not yet cleared

vars ==
    <<snapshot, results, files, uploads, currentFile, analysisData, isAnalyzing,
      slots, handled, uploadProgress, timers>>

fileUploadVars == <<handled, uploadProgress, timers>>

(***************************************************************************)
(* Bounds of the model.                                                    *)
(***************************************************************************)
\* calls of analyzeData on one snapshot
MaxCalls == 2
\* Math.floor(Math.random() * n) is drawn from 0..MaxRandom
MaxRandom == 1
\* threads of a snapshot of the wait-graph family
MaxThreads == 3
\* modules of a snapshot of the module family
MaxModules == 3
\* threads with a stack trace in the module family
MaxStackThreads == 7
\* bytes of an uploaded file
MaxFileBytes == 4
\* calls of handleFileUpload in one behaviour
MaxUploads == 2

(***************************************************************************)
(* JavaScript built-ins.                                                   *)
(***************************************************************************)
None == <<>>
Some(v) == <<v>>
IsSome(o) == Len(o) > 0
Get(o) == o[1]

CharAt(s, i) == SubSeq(s, i, i)

UpperChars == "ABCDEFGHIJKLMNOPQRSTUVWXYZ"
LowerChars == "abcdefghijklmnopqrstuvwxyz"

UpperToLower ==
    [c \in {CharAt(UpperChars, i) : i \in 1..Len(UpperChars)} |->
        CharAt(LowerChars, CHOOSE i \in 1..Len(UpperChars) : CharAt(UpperChars, i) = c)]

LowerToUpper ==
    [c \in {CharAt(LowerChars, i) : i \in 1..Len(LowerChars)} |->
        CharAt(UpperChars, CHOOSE i \in 1..Len(LowerChars) : CharAt(LowerChars, i) = c)]

IsUpperChar(c) == c \in DOMAIN UpperToLower

LowerChar(c) == IF c \in DOMAIN UpperToLower THEN UpperToLower[c] ELSE c

UpperChar(c) == IF c \in DOMAIN LowerToUpper THEN LowerToUpper[c] ELSE c

\* String.prototype.toLowerCase, of the characters i to j (by halves, so that
\* a long description does not nest deeply)
RECURSIVE lowerBetween(_, _, _)
lowerBetween(s, i, j) ==
    IF i > j THEN ""
    ELSE IF i = j THEN LowerChar(CharAt(s, i))
    ELSE LET m == (i + j) \div 2
         IN  lowerBetween(s, i, m) \o lowerBetween(s, m + 1, j)

toLowerCase(s) == lowerBetween(s, 1, Len(s))

\* String.prototype.includes
includes(s, p) ==
    \E i \in 1..(Len(s) - Len(p) + 1) : SubSeq(s, i, i + Len(p) - 1) = p

\* String.prototype.startsWith
startsWith(s, p) == Len(p) <= Len(s) /\ SubSeq(s, 1, Len(p)) = p

\* Array.prototype.join
RECURSIVE join(_, _)
join(xs, sep) ==
    IF Len(xs) = 0 THEN ""
    ELSE IF Len(xs) = 1 THEN xs[1]
    ELSE xs[1] \o sep \o join(Tail(xs), sep)

Range(xs) == {xs[i] : i \in 1..Len(xs)}

NoDuplicates(xs) == \A i, j \in 1..Len(xs) : xs[i] = xs[j] => i = j

\* [...new Set(xs)]: the first occurrence of each element, in order
RECURSIVE uniqueInOrder(_)
uniqueInOrder(xs) ==
    IF Len(xs) = 0 THEN <<>>
    ELSE LET init == uniqueInOrder(SubSeq(xs, 1, Len(xs) - 1))
             last == xs[Len(xs)]
         IN  IF last \in Range(init) THEN init ELSE Append(init, last)

(***************************************************************************)
(* JavaScript numbers, as far as calculateConfidence needs them: a         *)
(* rational num/den in lowest terms with den > 0, or NaN.  (The engine     *)
(* computes in binary floating point; for the ratios s/m with m up to the  *)
(* model's bounds the rounded product (s/m)*25 is an integer exactly when  *)
(* the rational one is.)                                                   *)
(***************************************************************************)
RECURSIVE GCD(_, _)
GCD(a, b) == IF b = 0 THEN a ELSE GCD(b, a % b)

Abs(n) == IF n < 0 THEN -n ELSE n

NaN == [nan |-> TRUE, num |-> 0, den |-> 1]

Rat(n, d) ==
    LET g == GCD(Abs(n), d)
    IN  [nan |-> FALSE, num |-> n \div g, den |-> d \div g]

Num(n) == Rat(n, 1)

\* a / b for two integers of which a >= 0: 0 / 0 is NaN
NumDiv(a, b) == IF b = 0 THEN NaN ELSE Rat(a, b)

NumAdd(x, y) ==
    IF x.nan \/ y.nan THEN NaN
    ELSE Rat(x.num * y.den + y.num * x.den, x.den * y.den)

NumMul(x, y) ==
    IF x.nan \/ y.nan THEN NaN ELSE Rat(x.num * y.num, x.den * y.den)

NumLeq(x, y) == ~x.nan /\ ~y.nan /\ x.num * y.den <= y.num * x.den

\* Math.min and Math.max: NaN if either argument is NaN
MathMin(x, y) == IF x.nan \/ y.nan THEN NaN ELSE IF NumLeq(x, y) THEN x ELSE y
MathMax(x, y) == IF x.nan \/ y.nan THEN NaN ELSE IF NumLeq(x, y) THEN y ELSE x

IsInteger(x) == ~x.nan /\ x.den = 1

(***************************************************************************)
(* The engine's static tables.                                             *)
(***************************************************************************)
AccessViolationCode == "0xC0000005"
StackOverflowCode == "0xC00000FD"
HeapCorruptionCode == "0xC0000374"
DivideByZeroCode == "0xC0000094"

\* Object.entries(CRASH_PATTERNS): the rules in insertion order
CRASH_PATTERNS == <<
    [name |-> "accessViolation",
     keywords |-> <<"0xC0000005", "access violation", "read", "write", "virtual address">>,
     severity |-> "critical",
     commonCauses |-> <<"Null pointer dereference", "Use after free", "Buffer overflow",
                        "Uninitialized pointer", "Memory corruption">>],
    [name |-> "stackOverflow",
     keywords |-> <<"0xC00000FD", "stack overflow", "stack">>,
     severity |-> "critical",
     commonCauses |-> <<"Infinite recursion", "Large local variables", "Deep call stack",
                        "Stack corruption">>],
    [name |-> "heapCorruption",
     keywords |-> <<"heap", "corruption", "0xC0000374">>,
     severity |-> "critical",
     commonCauses |-> <<"Double free", "Buffer overrun", "Use after free",
                        "Heap metadata corruption">>],
    [name |-> "divideByZero",
     keywords |-> <<"0xC0000094", "divide", "zero">>,
     severity |-> "high",
     commonCauses |-> <<"Unvalidated input", "Logic error", "Missing bounds checking">>]
>>

PROBLEMATIC_MODULES == <<"unknown", "corrupted", "unsigned", "debug", "test">>

(***************************************************************************)
(* formatCrashType: 'accessViolation' -> 'Access Violation'.               *)
(***************************************************************************)
\* .replace(/([A-Z])/g, ' $1')
RECURSIVE spaceBeforeCapitalsFrom(_, _)
spaceBeforeCapitalsFrom(s, i) ==
    IF i > Len(s) THEN ""
    ELSE LET c == CharAt(s, i)
         IN  (IF IsUpperChar(c) THEN " " \o c ELSE c) \o spaceBeforeCapitalsFrom(s, i + 1)

spaceBeforeCapitals(s) == spaceBeforeCapitalsFrom(s, 1)

\* .replace(/^./, str => str.toUpperCase())
upperFirst(s) ==
    IF Len(s) = 0 THEN s ELSE UpperChar(CharAt(s, 1)) \o SubSeq(s, 2, Len(s))

\* .trim(), for blanks
RECURSIVE trim(_)
trim(s) ==
    IF Len(s) = 0 THEN s
    ELSE IF CharAt(s, 1) = " " THEN trim(SubSeq(s, 2, Len(s)))
    ELSE IF CharAt(s, Len(s)) = " " THEN trim(SubSeq(s, 1, Len(s) - 1))
    ELSE s

formatCrashType(patternName) == trim(upperFirst(spaceBeforeCapitals(patternName)))

(***************************************************************************)
(* detectCrashPattern: the first rule with a keyword contained in the      *)
(* lower-cased text code + ' ' + description.                              *)
(***************************************************************************)
exceptionTextOf(exception) ==
    toLowerCase(exception.code \o " " \o exception.description)

\* pattern.keywords.some(keyword => exceptionText.includes(keyword.toLowerCase()))
patternMatches(pattern, exceptionText) ==
    \E k \in 1..Len(pattern.keywords) :
        includes(exceptionText, toLowerCase(pattern.keywords[k]))

patternResult(pattern) ==
    [type |-> formatCrashType(pattern.name),
     severity |-> pattern.severity,
     rootCause |-> pattern.commonCauses[1],
     possibleCauses |-> pattern.commonCauses]

defaultPattern ==
    [type |-> "Unknown Exception",
     severity |-> "medium",
     rootCause |-> "Unable to determine root cause from available information",
     possibleCauses |-> <<"Insufficient debugging information",
                          "Complex interaction between components">>]

\* the for loop from rule i on
RECURSIVE detectFrom(_, _)
detectFrom(exceptionText, i) ==
    IF i > Len(CRASH_PATTERNS) THEN defaultPattern
    ELSE IF patternMatches(CRASH_PATTERNS[i], exceptionText)
         THEN patternResult(CRASH_PATTERNS[i])
         ELSE detectFrom(exceptionText, i + 1)

\* as detectCrashPattern, taking the severity from the exception's own hint
detectCrashPatternSeverityHint(exception) ==
    [detectFrom(exceptionTextOf(exception), 1) EXCEPT !.severity = exception.severity]

\* the loop run from the last rule to the first
RECURSIVE detectDownFrom(_, _)
detectDownFrom(exceptionText, i) ==
    IF i < 1 THEN defaultPattern
    ELSE IF patternMatches(CRASH_PATTERNS[i], exceptionText)
         THEN patternResult(CRASH_PATTERNS[i])
         ELSE detectDownFrom(exceptionText, i - 1)

\* as detectCrashPattern, the last matching rule winning
detectCrashPatternLastMatch(exception) ==
    detectDownFrom(exceptionTextOf(exception), Len(CRASH_PATTERNS))

detectCrashPattern(exception) == detectFrom(exceptionTextOf(exception), 1)

(***************************************************************************)
(* The boolean detectors.                                                  *)
(***************************************************************************)
IsWaitingOrBlocked(t) == t.state = "waiting" \/ t.state = "blocked"

detectDeadlocks(threads) ==
    LET waitingThreads == SelectSeq(threads, IsWaitingOrBlocked)
    IN  Len(waitingThreads) > 1 /\ 2 * Len(waitingThreads) >= Len(threads)

\* modules.some(m => m.name.toLowerCase().includes('unknown') || !m.hasSymbols)
someModuleUnknownOrNoSymbols(modules) ==
    \E i \in 1..Len(modules) :
        includes(toLowerCase(modules[i].name), "unknown") \/ ~modules[i].hasSymbols

corruptionIndicators(exception, modules) ==
    << exception.code = AccessViolationCode,
       exception.code = HeapCorruptionCode,
       includes(toLowerCase(exception.description), "corruption"),
       someModuleUnknownOrNoSymbols(modules) >>

\* as detectMemoryCorruption, with one indicator being enough
detectMemoryCorruptionOneIndicator(exception, modules) ==
    LET ind == corruptionIndicators(exception, modules)
    IN  Cardinality({i \in 1..Len(ind) : ind[i]}) >= 1

detectMemoryCorruption(exception, modules) ==
    LET ind == corruptionIndicators(exception, modules)
    IN  Cardinality({i \in 1..Len(ind) : ind[i]}) >= 2

\* threads.find(t => t.isMainThread): the first one, or undefined
findMainThread(threads) ==
    LET mains == SelectSeq(threads, LAMBDA t : t.isMainThread)
    IN  IF Len(mains) = 0 THEN None ELSE Some(mains[1])

StackDepthThreshold == 50

\* as detectStackOverflow, reading the depth of every thread
detectStackOverflowAnyThread(exception, threads) ==
    \/ exception.code = StackOverflowCode
    \/ \E i \in 1..Len(threads) : threads[i].stackTrace > StackDepthThreshold

detectStackOverflow(exception, threads) ==
    LET mainThread == findMainThread(threads)
    IN  \/ exception.code = StackOverflowCode
        \/ (IsSome(mainThread) /\ Get(mainThread).stackTrace > StackDepthThreshold)

(***************************************************************************)
(* findProblematicModules.                                                 *)
(***************************************************************************)
\* as isProblematicName, without lower-casing the name
isProblematicNameCaseSensitive(name) ==
    \E k \in 1..Len(PROBLEMATIC_MODULES) : includes(name, PROBLEMATIC_MODULES[k])

isProblematicName(name) ==
    LET nameCheck == toLowerCase(name)
    IN  \E k \in 1..Len(PROBLEMATIC_MODULES) : includes(nameCheck, PROBLEMATIC_MODULES[k])

\* what modules.forEach pushes, module by module
RECURSIVE pushedForModules(_)
pushedForModules(modules) ==
    IF Len(modules) = 0 THEN <<>>
    ELSE LET m == modules[1]
         IN  (IF ~m.hasSymbols /\ ~m.isSystemModule THEN <<m.name>> ELSE <<>>)
                 \o (IF isProblematicName(m.name) THEN <<m.name>> ELSE <<>>)
                 \o pushedForModules(Tail(modules))

\* the array problematic before the duplicates are removed
problematicPushed(modules, exception) ==
    (IF exception.module # "" THEN <<exception.module>> ELSE <<>>)
        \o pushedForModules(modules)

\* as findProblematicModules, without removing the duplicates
findProblematicModulesKeepAll(modules, exception) ==
    problematicPushed(modules, exception)

findProblematicModules(modules, exception) ==
    uniqueInOrder(problematicPushed(modules, exception))

(***************************************************************************)
(* generateRecommendations.                                                *)
(***************************************************************************)
AccessViolationRecommendations ==
    << "Review pointer usage and ensure proper null checks",
       "Use static analysis tools to detect potential buffer overflows",
       "Enable Application Verifier to catch heap corruption early" >>

StackOverflowRecommendations ==
    << "Review recursive function calls for proper termination conditions",
       "Consider reducing local variable sizes or moving to heap allocation",
       "Increase stack size if recursion depth is expected" >>

DeadlockRecommendations ==
    << "Review thread synchronization and lock ordering",
       "Consider using deadlock detection tools during development",
       "Implement timeout mechanisms for lock acquisitions" >>

MemoryCorruptionRecommendations ==
    << "Enable heap debugging features in debug builds",
       "Use memory debugging tools like Application Verifier",
       "Review memory allocation and deallocation patterns" >>

\* as problemModulesLine, without the fixed prefix
problemModulesLineBare(problemModules) == join(problemModules, ", ")

\* `Update or replace problematic modules: ${problemModules.join(', ')}`
problemModulesLine(problemModules) ==
    "Update or replace problematic modules: " \o join(problemModules, ", ")

ThirdPartyRecommendation ==
    "Ensure all third-party libraries are compatible with your application"

GeneralRecommendations ==
    << "Reproduce the issue in a controlled environment",
       "Enable crash dumps and logging for better diagnostics",
       "Update to the latest version of runtime libraries" >>

\* as generateRecommendations, with the deadlock block before the stack block
generateRecommendationsDeadlockFirst(crashPattern, deadlockDetected, memoryCorruption, stackOverflow, problemModules) ==
    (IF includes(crashPattern.type, "Access Violation")
        THEN AccessViolationRecommendations ELSE <<>>)
        \o (IF deadlockDetected THEN DeadlockRecommendations ELSE <<>>)
        \o (IF stackOverflow THEN StackOverflowRecommendations ELSE <<>>)
        \o (IF memoryCorruption THEN MemoryCorruptionRecommendations ELSE <<>>)
        \o (IF Len(problemModules) > 0
            THEN <<problemModulesLine(problemModules), ThirdPartyRecommendation>>
            ELSE <<>>)
        \o GeneralRecommendations

generateRecommendations(crashPattern, deadlockDetected, memoryCorruption, stackOverflow, problemModules) ==
    (IF includes(crashPattern.type, "Access Violation")
        THEN AccessViolationRecommendations ELSE <<>>)
        \o (IF stackOverflow THEN StackOverflowRecommendations ELSE <<>>)
        \o (IF deadlockDetected THEN DeadlockRecommendations ELSE <<>>)
        \o (IF memoryCorruption THEN MemoryCorruptionRecommendations ELSE <<>>)
        \o (IF Len(problemModules) > 0
            THEN <<problemModulesLine(problemModules), ThirdPartyRecommendation>>
            ELSE <<>>)
        \o GeneralRecommendations

(***************************************************************************)
(* calculateConfidence.                                                    *)
(***************************************************************************)
ExceptionCodeWeight == 30
StackTraceWeight == 5
StackTraceCap == 30
SymbolWeight == 25
KnownModuleWeight == 15
ConfidenceMax == 100

\* data.exception.code && data.exception.code !== 'Unknown'
exceptionCodeTerm(data) ==
    IF data.exception.code # "" /\ data.exception.code # "Unknown"
    THEN Num(ExceptionCodeWeight) ELSE Num(0)

\* as stackTraceTerm, counting every thread, with a stack trace or not
stackTraceTermAllThreads(data) ==
    MathMin(Num(StackTraceCap), Num(Len(data.threads) * StackTraceWeight))

\* Math.min(30, threadsWithStacks.length * 5)
stackTraceTerm(data) ==
    LET threadsWithStacks == SelectSeq(data.threads, LAMBDA t : t.stackTrace > 0)
    IN  MathMin(Num(StackTraceCap), Num(Len(threadsWithStacks) * StackTraceWeight))

\* Math.min(25, (modulesWithSymbols.length / data.modules.length) * 25)
symbolTerm(data) ==
    LET modulesWithSymbols == SelectSeq(data.modules, LAMBDA m : m.hasSymbols)
    IN  MathMin(Num(SymbolWeight),
                NumMul(NumDiv(Len(modulesWithSymbols), Len(data.modules)),
                       Num(SymbolWeight)))

\* data.exception.module && data.modules.find(m => m.name === data.exception.module)
knownModuleTerm(data) ==
    IF /\ data.exception.module # ""
       /\ \E i \in 1..Len(data.modules) : data.modules[i].name = data.exception.module
    THEN Num(KnownModuleWeight) ELSE Num(0)

calculateConfidence(data) ==
    LET confidence ==
            NumAdd(NumAdd(NumAdd(exceptionCodeTerm(data), stackTraceTerm(data)),
                          symbolTerm(data)),
                   knownModuleTerm(data))
    IN  MathMin(Num(ConfidenceMax), MathMax(Num(0), confidence))

(***************************************************************************)
(* generateTechnicalEvidence.  Of an evidence item the model keeps type,   *)
(* description, confidence and memoryAddress; technicalDetails and rawData *)
(* are fixed text templates over the same inputs.                          *)
(***************************************************************************)
NullRegisterValues == {"0x0000000000000000", "0x00000000"}

\* Object.values(registers).some(reg => reg is one of the null patterns)
nullPointerCheck(registers) ==
    \E k \in DOMAIN registers : registers[k] \in NullRegisterValues

registerStateEvidence(data) ==
    IF IsSome(data.exception.registers) /\ nullPointerCheck(Get(data.exception.registers))
    THEN << [type |-> "register_state",
             description |-> "Null pointer detected in CPU registers",
             confidence |-> 85,
             memoryAddress |-> data.exception.address] >>
    ELSE <<>>

memoryPatternEvidence(data) ==
    IF data.exception.code = AccessViolationCode
    THEN << [type |-> "memory_pattern",
             description |-> "Access violation detected",
             confidence |-> 90,
             memoryAddress |-> data.exception.address] >>
    ELSE <<>>

\* as threadStateEvidence, emitted from two waiting threads on
threadStateEvidenceFromTwo(data) ==
    LET waitingThreads == SelectSeq(data.threads, LAMBDA t : t.state = "waiting")
    IN  IF Len(waitingThreads) >= 2
        THEN << [type |-> "thread_state",
                 description |-> "Multiple threads in waiting state detected",
                 confidence |-> 70] >>
        ELSE <<>>

threadStateEvidence(data) ==
    LET waitingThreads == SelectSeq(data.threads, LAMBDA t : t.state = "waiting")
    IN  IF Len(waitingThreads) > 2
        THEN << [type |-> "thread_state",
                 description |-> "Multiple threads in waiting state detected",
                 confidence |-> 70] >>
        ELSE <<>>

\* if (data.exception.faultingInstruction): present and not the empty string
instructionEvidence(data) ==
    IF IsSome(data.exception.faultingInstruction)
       /\ Get(data.exception.faultingInstruction) # ""
    THEN << [type |-> "instruction_analysis",
             description |-> "Faulting instruction analysis",
             confidence |-> 95,
             memoryAddress |-> data.exception.address] >>
    ELSE <<>>

\* as generateTechnicalEvidence, returning nothing until the crash pattern
\* it is handed has been computed
generateTechnicalEvidenceByPattern(data, crashPattern) ==
    IF crashPattern = <<>> THEN <<>>
    ELSE registerStateEvidence(data) \o memoryPatternEvidence(data)
             \o threadStateEvidence(data) \o instructionEvidence(data)

generateTechnicalEvidence(data, crashPattern) ==
    registerStateEvidence(data) \o memoryPatternEvidence(data)
        \o threadStateEvidence(data) \o instructionEvidence(data)

(***************************************************************************)
(* analyzeDeadlocks.                                                       *)
(***************************************************************************)
\* threads.filter(t => t.state === 'waiting' && t.waitObjects): an empty
\* array is truthy
hasWaitObjects(t) == t.state = "waiting" /\ IsSome(t.waitObjects)

\* as sharedObjectsOf, without the filter
sharedObjectsUnfiltered(thread1, thread2) == Get(thread1.waitObjects)

\* thread1.waitObjects.filter(obj1 => thread2.waitObjects.some(same handle))
sharedObjectsOf(thread1, thread2) ==
    LET objects2 == Get(thread2.waitObjects)
    IN  SelectSeq(Get(thread1.waitObjects),
                  LAMBDA obj1 : \E k \in 1..Len(objects2) : objects2[k].handle = obj1.handle)

handlesOf(objects) == [k \in 1..Len(objects) |-> objects[k].handle]

cycleEntry(thread1, thread2, sharedObjects) ==
    [threads |-> <<thread1.id, thread2.id>>,
     resources |-> handlesOf(sharedObjects),
     evidence |-> << [type |-> "thread_state",
                      description |-> "Circular wait detected",
                      confidence |-> 80] >>]

\* the two nested loops, from the pair (i, j) on
RECURSIVE cyclesFrom(_, _, _)
cyclesFrom(waitingThreads, i, j) ==
    IF i > Len(waitingThreads) THEN <<>>
    ELSE IF j > Len(waitingThreads) THEN cyclesFrom(waitingThreads, i + 1, i + 2)
    ELSE LET sharedObjects == sharedObjectsOf(waitingThreads[i], waitingThreads[j])
         IN  (IF Len(sharedObjects) > 0
                 THEN <<cycleEntry(waitingThreads[i], waitingThreads[j], sharedObjects)>>
                 ELSE <<>>)
                 \o cyclesFrom(waitingThreads, i, j + 1)

\* as analyzeDeadlocks, reporting a deadlock whenever two threads wait
analyzeDeadlocksByCount(threads) ==
    LET waitingThreads == SelectSeq(threads, hasWaitObjects)
    IN  IF Len(waitingThreads) < 2 THEN [detected |-> FALSE]
        ELSE LET cycles == cyclesFrom(waitingThreads, 1, 2)
             IN  [detected |-> TRUE, cycles |-> cycles]

analyzeDeadlocks(threads) ==
    LET waitingThreads == SelectSeq(threads, hasWaitObjects)
    IN  IF Len(waitingThreads) < 2 THEN [detected |-> FALSE]
        ELSE LET cycles == cyclesFrom(waitingThreads, 1, 2)
             IN  [detected |-> Len(cycles) > 0, cycles |-> cycles]

(***************************************************************************)
(* analyzeHeap.  allocationsCount and leakedBytes come from Math.random(); *)
(* the two draws are the parameters rndAllocations and rndLeaked.          *)
(* Addresses are represented by their numeric value.                       *)
(***************************************************************************)
heapCorruptionFlag(exception) ==
    \/ exception.code = HeapCorruptionCode
    \/ includes(toLowerCase(exception.description), "heap")

CorruptionPatterns ==
    << "Heap metadata corruption detected",
       "Invalid heap block signature",
       "Corrupted free list pointers" >>

analyzeHeap(exception, modules, rndAllocations, rndLeaked) ==
    IF ~heapCorruptionFlag(exception) THEN [corruptionDetected |-> FALSE]
    ELSE [corruptionDetected |-> TRUE,
          corruptionPatterns |-> CorruptionPatterns,
          evidence |-> << [type |-> "heap_corruption",
                           description |-> "Heap corruption indicators found",
                           confidence |-> 90,
                           memoryAddress |-> exception.address] >>,
          allocationsCount |-> rndAllocations + 1000,
          leakedBytes |-> rndLeaked,
          heapBlocks |-> << [address |-> exception.address, size |-> "0x1000",
                             status |-> "corrupted"],
                            [address |-> exception.address + 4096, size |-> "0x800",
                             status |-> "allocated"] >>]

(***************************************************************************)
(* analyzeStack.                                                           *)
(***************************************************************************)
\* registers?.<key>
registerOf(registers, key) ==
    IF IsSome(registers) /\ key \in DOMAIN Get(registers)
    THEN Some(Get(registers)[key]) ELSE None

\* a || b for optional strings: a if it is present and not empty
orElse(a, b) == IF IsSome(a) /\ Get(a) # "" THEN a ELSE b

stackRangeOf(mainThread) ==
    [base |-> Get(orElse(mainThread.stackBase, Some("0x00000000"))),
     limit |-> Get(orElse(mainThread.stackLimit, Some("0x00000000"))),
     current |-> Get(orElse(registerOf(mainThread.registers, "rsp"),
                            orElse(registerOf(mainThread.registers, "esp"),
                                   Some("0x00000000"))))]

analyzeStack(exception, threads) ==
    LET stackOverflow == exception.code = StackOverflowCode
        mainThread == findMainThread(threads)
    IN  IF ~stackOverflow
           /\ (~IsSome(mainThread) \/ Get(mainThread).stackTrace < StackDepthThreshold)
        THEN [overflowDetected |-> FALSE]
        ELSE [overflowDetected |-> TRUE,
              stackDepth |-> IF IsSome(mainThread) THEN Get(mainThread).stackTrace ELSE 0,
              guardPageStatus |-> IF stackOverflow THEN "Violated" ELSE "Intact",
              evidence |-> << [type |-> "instruction_analysis",
                               description |-> "Stack overflow detected",
                               confidence |-> 95] >>,
              stackRange |-> IF IsSome(mainThread)
                             THEN Some(stackRangeOf(Get(mainThread))) ELSE None]

(***************************************************************************)
(* generateAlternativeExplanations.                                        *)
(***************************************************************************)
\* as generateAlternativeExplanations, keyed on any evidence item at all
generateAlternativeExplanationsAnyEvidence(crashPattern, evidence) ==
    (IF includes(crashPattern.type, "Access Violation")
        THEN << "Memory mapped file became invalid",
                "Virtual memory exhaustion",
                "Hardware memory error" >>
        ELSE <<>>)
        \o (IF Len(evidence) > 0
            THEN << "Resource contention without deadlock",
                    "Priority inversion scenario" >>
            ELSE <<>>)
        \o << "Timing-dependent race condition", "External process interference" >>

generateAlternativeExplanations(crashPattern, evidence) ==
    (IF includes(crashPattern.type, "Access Violation")
        THEN << "Memory mapped file became invalid",
                "Virtual memory exhaustion",
                "Hardware memory error" >>
        ELSE <<>>)
        \o (IF \E k \in 1..Len(evidence) : evidence[k].type = "thread_state"
            THEN << "Resource contention without deadlock",
                    "Priority inversion scenario" >>
            ELSE <<>>)
        \o << "Timing-dependent race condition", "External process interference" >>

(***************************************************************************)
(* Where the engine could throw: a property read x.f (or Object.values(x)) *)
(* throws a TypeError when x is undefined; x?.f does not.  Each disjunct   *)
(* is one read without ?., under the conditions that lead to it.           *)
(***************************************************************************)
Truthy(o) == IsSome(o)
readOfUndefined(receiver) == ~IsSome(receiver)

\* mainThread && mainThread.stackTrace.length > 50
detectStackOverflowThrows(exception, threads) ==
    LET mainThread == findMainThread(threads)
    IN  /\ exception.code # StackOverflowCode
        /\ Truthy(mainThread)
        /\ readOfUndefined(mainThread)

\* as analyzeStackThrows, with stackRange built without the mainThread ? test
analyzeStackThrowsUnguarded(exception, threads) ==
    LET stackOverflow == exception.code = StackOverflowCode
        mainThread == findMainThread(threads)
        falseBranch == ~stackOverflow
                          /\ (~Truthy(mainThread)
                              \/ Get(mainThread).stackTrace < StackDepthThreshold)
    IN  \/ (~stackOverflow /\ ~(~Truthy(mainThread)) /\ readOfUndefined(mainThread))
        \/ (~falseBranch /\ readOfUndefined(mainThread))

analyzeStackThrows(exception, threads) ==
    LET stackOverflow == exception.code = StackOverflowCode
        mainThread == findMainThread(threads)
        falseBranch == ~stackOverflow
                          /\ (~Truthy(mainThread)
                              \/ Get(mainThread).stackTrace < StackDepthThreshold)
    IN  \* !stackOverflow && (!mainThread || mainThread.stackTrace.length < 50)
        \/ (~stackOverflow /\ ~(~Truthy(mainThread)) /\ readOfUndefined(mainThread))
        \* stackRange: mainThread ? { base: mainThread.stackBase ... } : undefined
        \/ (~falseBranch /\ Truthy(mainThread) /\ readOfUndefined(mainThread))

\* if (data.exception.registers) { Object.values(data.exception.registers) ... }
generateTechnicalEvidenceThrows(data) ==
    Truthy(data.exception.registers) /\ readOfUndefined(data.exception.registers)

\* if (sharedObjects && sharedObjects.length > 0) { sharedObjects.map(...) }
\* where sharedObjects = thread1.waitObjects?.filter(...)
analyzeDeadlocksThrows(threads) ==
    LET waitingThreads == SelectSeq(threads, hasWaitObjects)
    IN  \E i \in 1..Len(waitingThreads) :
            /\ \E j \in (i + 1)..Len(waitingThreads) : TRUE
            /\ Truthy(waitingThreads[i].waitObjects)
            /\ readOfUndefined(waitingThreads[i].waitObjects)

performCrashAnalysisThrows(data) ==
    \/ analyzeDeadlocksThrows(data.threads)
    \/ detectStackOverflowThrows(data.exception, data.threads)
    \/ analyzeStackThrows(data.exception, data.threads)
    \/ generateTechnicalEvidenceThrows(data)

(***************************************************************************)
(* performCrashAnalysis and analyzeData.                                   *)
(***************************************************************************)
performCrashAnalysis(data, rndAllocations, rndLeaked) ==
    LET exception == data.exception
        threads == data.threads
        modules == data.modules
        crashPattern == detectCrashPattern(exception)
        deadlockDetected == detectDeadlocks(threads)
        deadlockInfo == analyzeDeadlocks(threads)
        memoryCorruption == detectMemoryCorruption(exception, modules)
        stackOverflow == detectStackOverflow(exception, threads)
        stackAnalysis == analyzeStack(exception, threads)
        heapAnalysis == analyzeHeap(exception, modules, rndAllocations, rndLeaked)
        problemModules == findProblematicModules(modules, exception)
        evidence == generateTechnicalEvidence(data, crashPattern)
        recommendations ==
            generateRecommendations(crashPattern, deadlockDetected, memoryCorruption,
                                    stackOverflow, problemModules)
        confidence == calculateConfidence(data)
        alternativeExplanations == generateAlternativeExplanations(crashPattern, evidence)
    IN  [crashType |-> crashPattern.type,
         severity |-> crashPattern.severity,
         likelyRootCause |-> crashPattern.rootCause,
         confidence |-> confidence,
         recommendations |-> recommendations,
         problemModules |-> problemModules,
         deadlockDetected |-> deadlockDetected,
         memoryCorruption |-> memoryCorruption,
         stackOverflow |-> stackOverflow,
         evidence |-> evidence,
         deadlockInfo |-> deadlockInfo,
         heapAnalysis |-> heapAnalysis,
         stackAnalysis |-> stackAnalysis,
         alternativeExplanations |-> alternativeExplanations]

\* as analyzeData, handing back the snapshot with its threads cleared
analyzeDataClearingThreads(data, rndAllocations, rndLeaked) ==
    IF performCrashAnalysisThrows(data)
    THEN [threw |-> TRUE]
    ELSE [threw |-> FALSE,
          value |-> [data EXCEPT
                        !.analysis = performCrashAnalysis(data, rndAllocations, rndLeaked),
                        !.threads = <<>>]]

\* What one call does: it throws, or it returns { ...data, analysis }
analyzeData(data, rndAllocations, rndLeaked) ==
    IF performCrashAnalysisThrows(data)
    THEN [threw |-> TRUE]
    ELSE [threw |-> FALSE,
          value |-> [data EXCEPT
                        !.analysis = performCrashAnalysis(data, rndAllocations, rndLeaked)]]

(***************************************************************************)
(* The snapshots of the model: bounded families of well-typed              *)
(* AnalysisData, each varying one part of the input.                       *)
(***************************************************************************)
\* the analysis the decoder leaves in the snapshot
PendingAnalysis ==
    [crashType |-> "Unknown",
     severity |-> "medium",
     likelyRootCause |-> "Analysis pending...",
     confidence |-> Num(0),
     recommendations |-> <<>>,
     problemModules |-> <<>>,
     deadlockDetected |-> FALSE,
     memoryCorruption |-> FALSE,
     stackOverflow |-> FALSE,
     evidence |-> <<>>]

Statistics(threads, modules) ==
    [totalThreads |-> Len(threads),
     runningThreads |-> Len(SelectSeq(threads, LAMBDA t : t.state = "running")),
     waitingThreads |-> Len(SelectSeq(threads, LAMBDA t : t.state = "waiting")),
     totalModules |-> Len(modules),
     systemModules |-> Len(SelectSeq(modules, LAMBDA m : m.isSystemModule)),
     thirdPartyModules |-> Len(SelectSeq(modules, LAMBDA m : ~m.isSystemModule)),
     modulesWithSymbols |-> Len(SelectSeq(modules, LAMBDA m : m.hasSymbols))]

AnalysisData(exception, threads, modules) ==
    [fileInfo |-> [name |-> "crash.dmp", type |-> "minidump", architecture |-> "x64"],
     systemInfo |-> [osVersion |-> "Windows 10 Pro (10.0.19041)"],
     processInfo |-> [name |-> "MyApplication.exe"],
     exception |-> exception,
     threads |-> threads,
     modules |-> modules,
     analysis |-> PendingAnalysis,
     statistics |-> Statistics(threads, modules)]

ExceptionInfo(code, description, module, severity, registers, faultingInstruction) ==
    [code |-> code,
     address |-> 4198400,
     description |-> description,
     module |-> module,
     severity |-> severity,
     registers |-> registers,
     faultingInstruction |-> faultingInstruction]

\* stack bounds and registers present (detail) or all absent
ThreadInfo(id, state, stackTrace, isMainThread, waitObjects, detail) ==
    [id |-> id,
     state |-> state,
     stackTrace |-> stackTrace,
     isMainThread |-> isMainThread,
     waitObjects |-> waitObjects,
     registers |-> IF detail THEN Some([rsp |-> "0x000000000012F000"]) ELSE None,
     stackBase |-> IF detail THEN Some("0x00130000") ELSE None,
     stackLimit |-> IF detail THEN Some("0x0012D000") ELSE None]

ModuleInfo(name, hasSymbols, isSystemModule) ==
    [name |-> name, hasSymbols |-> hasSymbols, isSystemModule |-> isSystemModule]

WaitObject(handle) == [type |-> "mutex", handle |-> handle]

\* all sequences over S of length 0..n
SeqsUpTo(S, n) == UNION {[1..k -> S] : k \in 0..n}

ExceptionCodes ==
    {AccessViolationCode, StackOverflowCode, HeapCorruptionCode, DivideByZeroCode,
     "0x80000003", "Unknown", ""}

Descriptions ==
    {"", "Access Violation", "The thread used up its stack", "Heap corruption",
     "Integer Divide by Zero", "Stack heap zero", "Breakpoint", "Memory corruption"}

Severities == {"critical", "low"}

RegisterStates ==
    {None,
     Some([rax |-> "0x00000000000012F0", rip |-> "0x00007FF612345678"]),
     Some([eax |-> "0x00000000", eip |-> "0x00401000"])}

FaultingInstructions == {None, Some(""), Some("MOV [RAX], RBX")}

MainThread(depth) == ThreadInfo(0, "running", depth, TRUE, None, TRUE)

AppModule == ModuleInfo("MyApplication.exe", TRUE, FALSE)

\* the classifier's input: code, description and severity hint
ExceptionTextFamily ==
    {AnalysisData(ExceptionInfo(c, d, "MyApplication.exe", s, None, None),
                  <<MainThread(5)>>, <<AppModule>>) :
        c \in ExceptionCodes, d \in Descriptions, s \in Severities}

\* three threads waiting on the same handle
ThreeWaitingThreads ==
    [i \in 1..3 |->
        ThreadInfo(i - 1, "waiting", 1, i = 1, Some(<<WaitObject("0x000000A4")>>), FALSE)]

\* the optional parts of the exception, with one thread or three waiting ones
OptionalsFamily ==
    {AnalysisData(ExceptionInfo(c, "", "MyApplication.exe", "high", r, f),
                  ts, <<AppModule>>) :
        c \in {AccessViolationCode, "Unknown"}, r \in RegisterStates,
        f \in FaultingInstructions,
        ts \in {<<MainThread(0)>>, <<MainThread(5)>>, ThreeWaitingThreads}}

ModuleKinds ==
    {AppModule,
     ModuleInfo("AppCore.dll", FALSE, FALSE),
     ModuleInfo("ntdll.dll", FALSE, TRUE),
     ModuleInfo("Unknown.dll", FALSE, FALSE),
     ModuleInfo("TestHook.dll", TRUE, TRUE)}

\* module lists with names unique within the snapshot
ModuleLists ==
    {ms \in SeqsUpTo(ModuleKinds, MaxModules) :
        \A i, j \in 1..Len(ms) : ms[i].name = ms[j].name => i = j}

ExceptionModules ==
    {"", "MyApplication.exe", "Unknown.dll", ThirdPartyRecommendation}

\* idle threads without a stack trace, then workers with one frame each
StackThreads(idle, workers) ==
    [i \in 1..(idle + workers) |->
        ThreadInfo(i - 1, "running", IF i <= idle THEN 0 ELSE 1, i = 1, None, FALSE)]

\* the modules: names, symbols, system modules, and the exception's module
ModuleFamily ==
    {AnalysisData(ExceptionInfo(ct[1], "", m, "high", None, None), ct[2], ms) :
        ct \in {<<AccessViolationCode, StackThreads(0, 2)>>,
                <<"0x80000003", StackThreads(1, 0)>>},
        m \in ExceptionModules,
        ms \in ModuleLists}

\* the stack traces: how many threads have one
StackTraceFamily ==
    {AnalysisData(ExceptionInfo(c, "", m, "high", None, None),
                  StackThreads(idle, workers), ms) :
        c \in {AccessViolationCode, "Unknown", ""},
        m \in {"", "MyApplication.exe"},
        idle \in 0..1, workers \in 0..MaxStackThreads,
        ms \in {<<>>, <<AppModule>>, <<AppModule, ModuleInfo("AppCore.dll", FALSE, FALSE)>>}}

WaitObjectLists ==
    {None, Some(<<>>), Some(<<WaitObject("0x000000A4")>>),
     Some(<<WaitObject("0x000000B8")>>),
     Some(<<WaitObject("0x000000A4"), WaitObject("0x000000B8")>>)}

HandleA == Some(<<WaitObject("0x000000A4")>>)
HandleAB == Some(<<WaitObject("0x000000A4"), WaitObject("0x000000B8")>>)

\* a state and the wait objects of a thread in it
ThreadKinds ==
    ({"waiting"} \X WaitObjectLists)
        \cup ({"blocked", "running"} \X {HandleA})

WaitThreads(kinds) ==
    [i \in 1..Len(kinds) |->
        ThreadInfo(i - 1, kinds[i][1], 1, i = 1, kinds[i][2], FALSE)]

\* the wait graph: thread states and wait objects
WaitGraphFamily ==
    {AnalysisData(ExceptionInfo("Unknown", "", "MyApplication.exe", "high", None, None),
                  WaitThreads(kinds), <<AppModule>>) :
        kinds \in SeqsUpTo(ThreadKinds, MaxThreads)}

StackThreadKinds ==
    {ThreadInfo(0, "running", depth, main, None, detail) :
        depth \in {0, StackDepthThreshold - 1, StackDepthThreshold,
                   StackDepthThreshold + 1},
        main \in BOOLEAN, detail \in BOOLEAN}

\* thread ids are unique: the position in the list
Renumbered(threads) == [i \in 1..Len(threads) |-> [threads[i] EXCEPT !.id = i - 1]]

\* the main thread and its depth
StackFamily ==
    {AnalysisData(ExceptionInfo(c, "", "MyApplication.exe", "high", None, None),
                  Renumbered(ts), <<AppModule>>) :
        c \in {StackOverflowCode, "Unknown"}, ts \in SeqsUpTo(StackThreadKinds, 2)}

DeadlockedThreads(depth) ==
    <<MainThread(depth),
      ThreadInfo(1, "waiting", 1, FALSE, Some(<<WaitObject("0x000000A4")>>), FALSE),
      ThreadInfo(2, "waiting", 1, FALSE, Some(<<WaitObject("0x000000A4")>>), FALSE)>>

\* the flags the recommendations read, in combination
FlagsFamily ==
    {AnalysisData(ExceptionInfo(c, "", m, "high", None, None), ts, <<md>>) :
        c \in {AccessViolationCode, StackOverflowCode, "Unknown"},
        m \in {"", "MyApplication.exe"},
        ts \in {<<MainThread(1)>>, <<MainThread(StackDepthThreshold + 1)>>,
                DeadlockedThreads(1), DeadlockedThreads(StackDepthThreshold + 1)},
        md \in {AppModule, ModuleInfo("AppCore.dll", FALSE, FALSE)}}

\* Math.floor(Math.random() * n), within the model's bound
RandomDraws == 0..MaxRandom

\* Math.floor(Math.random() * 1000000): its least and its greatest value
LeakedDraws == {0, 999999}

\* analyzeHeap calls Math.random() twice, and only when it flags corruption
RandomDrawsOf(data) ==
    IF heapCorruptionFlag(data.exception) THEN RandomDraws \X LeakedDraws ELSE {<<0, 0>>}

\* DumpParser.EXCEPTION_CODES: the description the decoder gives each code
EXCEPTION_CODES ==
    ("0xC0000005" :> "Access Violation - The thread tried to read from or write to a virtual address for which it does not have the appropriate access.")
    @@ ("0xC0000017" :> "No Memory - Not enough memory resources are available to complete this operation.")
    @@ ("0xC000001D" :> "Illegal Instruction - The thread tried to execute an invalid instruction.")
    @@ ("0xC0000096" :> "Privileged Instruction - The thread tried to execute an instruction whose operation is not allowed in the current machine mode.")
    @@ ("0xC00000FD" :> "Stack Overflow - The thread used up its stack.")
    @@ ("0xC0000094" :> "Integer Divide by Zero - The thread tried to divide an integer value by an integer divisor of zero.")
    @@ ("0xC000008C" :> "Array Bounds Exceeded - The thread tried to access an array element that is out of bounds.")
    @@ ("0x80000003" :> "Breakpoint - A breakpoint was encountered.")
    @@ ("0x80000004" :> "Single Step - A trace trap or other single-instruction mechanism signaled that one instruction has been executed.")
    @@ ("0xC0000409" :> "Stack Buffer Overrun - The system detected an overrun of a stack-based buffer in this application.")

\* the first of the instructions the decoder draws from for the code; the
\* engine reads only whether one is present
generateFaultingInstruction(exceptionCode) ==
    CASE exceptionCode = "0xC0000005" -> "MOV [RAX], RBX"
      [] exceptionCode = "0xC00000FD" -> "PUSH RAX"
      [] exceptionCode = "0xC0000094" -> "DIV ECX"
      [] OTHER -> "MOV EAX, EBX"

\* extractExceptionInfo: a code of the table with its description; critical
\* for the access-violation and stack-overflow codes, high otherwise
DecodedException(code, module, registers) ==
    ExceptionInfo(code, EXCEPTION_CODES[code], module,
                  IF code = "0xC0000005" \/ code = "0xC00000FD" THEN "critical" ELSE "high",
                  Some(registers), Some(generateFaultingInstruction(code)))

\* the exceptions the decoder produces, one per code of its table
DecoderFamily ==
    {AnalysisData(DecodedException(c, "MyApplication.exe",
                                   [rax |-> "0x00000000000012F0",
                                    rip |-> "0x00007FF612345678"]),
                  <<MainThread(5)>>, <<AppModule>>) :
        c \in DOMAIN EXCEPTION_CODES}

(***************************************************************************)
(* DumpParser.parseFile.  A file is its name, its size and its bytes.  The *)
(* decoder reads the signature only; everything else it returns is made up *)
(* with Math.random(), and is drawn here from DecodedContents.  The field  *)
(* uploadedAt (new Date()) is left out.                                    *)
(***************************************************************************)
MINIDUMP_SIGNATURE == 1347241037

\* dataView.getUint32(0, true): the first four bytes, little-endian
getUint32LittleEndian(bytes) ==
    bytes[1] + 256 * bytes[2] + 65536 * bytes[3] + 16777216 * bytes[4]

\* the same four bytes read big-endian
getUint32BigEndian(bytes) ==
    bytes[4] + 256 * bytes[3] + 65536 * bytes[2] + 16777216 * bytes[1]

\* as isValidDumpFile, reading the signature big-endian
isValidDumpFileBigEndian(bytes) ==
    IF Len(bytes) < 4 THEN FALSE
    ELSE getUint32BigEndian(bytes) = MINIDUMP_SIGNATURE

\* getUint32 throws a RangeError on fewer than four bytes, which is caught
isValidDumpFile(bytes) ==
    IF Len(bytes) < 4 THEN FALSE
    ELSE getUint32LittleEndian(bytes) = MINIDUMP_SIGNATURE

extractFileInfo(file, architecture) ==
    [name |-> file.name,
     size |-> file.size,
     type |-> IF includes(file.name, "kernel") THEN "kernel"
              ELSE IF includes(file.name, "full") THEN "full" ELSE "minidump",
     architecture |-> architecture]

InvalidDumpFileMessage == "Invalid dump file format"

\* the promise parseFile returns: rejected, or resolved with the snapshot
parseFile(file, decoded) ==
    IF ~isValidDumpFile(file.bytes)
    THEN [threw |-> TRUE, message |-> InvalidDumpFileMessage]
    ELSE [threw |-> FALSE,
          value |-> [AnalysisData(decoded.exception, decoded.threads, decoded.modules)
                        EXCEPT !.fileInfo = extractFileInfo(file, decoded.architecture)]]

\* two of the snapshots the decoder can make up
DecodedContents ==
    {[exception |-> DecodedException(AccessViolationCode, "MyApplication.exe",
                                     [rax |-> "0x0000000000000000"]),
      threads |-> DeadlockedThreads(5),
      modules |-> <<AppModule, ModuleInfo("ntdll.dll", FALSE, TRUE)>>,
      architecture |-> "x64"],
     [exception |-> DecodedException("0x80000003", "ntdll.dll",
                                     [eax |-> "0x00401000"]),
      threads |-> <<MainThread(5)>>,
      modules |-> <<AppModule>>,
      architecture |-> "x86"]}

File(name, bytes) == [name |-> name, size |-> Len(bytes), bytes |-> bytes]

\* the bytes 'M', 'D', 'P' of the signature, and zero
Bytes == {0, 68, 77, 80}

\* every file of up to MaxFileBytes bytes
SmallFiles == {File("crash.dmp", bytes) : bytes \in SeqsUpTo(Bytes, MaxFileBytes)}

ValidFile == File("crash.dmp", <<77, 68, 77, 80>>)
TruncatedFile == File("kernel.dmp", <<77, 68, 77>>)
SwappedFile == File("full.dmp", <<80, 77, 68, 77>>)

\* what the user uploads: one small file, or several files of three kinds
UploadedFiles ==
    {<<f>> : f \in SmallFiles}
        \cup SeqsUpTo({ValidFile, TruncatedFile, SwappedFile}, MaxUploads)

(***************************************************************************)
(* MemoryDumpAnalyzer.  handleFileUpload runs in two steps: up to          *)
(* await DumpParser.parseFile(file) (StartUpload), and from the settled    *)
(* promise to the end of finally (UploadSucceeds, UploadFails); nothing    *)
(* but the decoder runs between the file's bytes arriving and the          *)
(* continuation.  The handlers test nothing before they act, so the model  *)
(* lets them be called in any state.  uploads[i] records what call i did:  *)
(* what it handed to the engine, and the toast it showed.                  *)
(***************************************************************************)
NoSnapshot == <<>>

\* no stage has run
NoSlots == <<>>

\* FileUpload as mounted: useState(0), no interval
FileUploadIdle ==
    /\ handled = <<>>
    /\ uploadProgress = 0
    /\ timers = 0

toastOf(title, description) == [title |-> title, description |-> description]

AnalyzerIdle ==
    /\ files = <<>>
    /\ uploads = <<>>
    /\ currentFile = None
    /\ analysisData = None
    /\ isAnalyzing = FALSE

analyzerVars == <<files, uploads, currentFile, analysisData, isAnalyzing>>

\* if (currentFile && analysisData): the Dashboard is rendered, FileUpload is
\* not
DashboardShown == currentFile # None /\ analysisData # None

UploadInit ==
    /\ files \in UploadedFiles
    /\ uploads = <<>>
    /\ currentFile = None
    /\ analysisData = None
    /\ isAnalyzing = FALSE
    /\ snapshot = NoSnapshot
    /\ results = <<>>
    /\ slots = NoSlots
    /\ FileUploadIdle

\* handleFileUpload(file), up to the await
StartUpload ==
    /\ Len(uploads) < Len(files)
    /\ uploads' = Append(uploads, [pc |-> "parsing", engineInput |-> None, toast |-> None])
    /\ isAnalyzing' = TRUE
    /\ UNCHANGED <<files, currentFile, analysisData, snapshot, results, slots, fileUploadVars>>

\* the try block runs to its end
TryBlockEnds(i) ==
    /\ uploads[i].pc = "parsing"
    /\ \E decoded \in DecodedContents :
           LET parsedData == parseFile(files[i], decoded)
           IN  /\ ~parsedData.threw
               /\ \E rnd \in RandomDrawsOf(parsedData.value) :
                      LET analyzedData == analyzeData(parsedData.value, rnd[1], rnd[2])
                      IN  /\ ~analyzedData.threw
                          /\ currentFile' = Some(analyzedData.value.fileInfo)
                          /\ analysisData' = Some(analyzedData.value)
                          /\ uploads' = [uploads EXCEPT ![i] =
                                 [pc |-> "finished",
                                  engineInput |-> Some(parsedData.value),
                                  toast |-> Some(toastOf("Analysis Complete",
                                      "Successfully analyzed " \o files[i].name))]]
    /\ isAnalyzing' = FALSE
    /\ UNCHANGED <<files, snapshot, results, slots>>

UploadSucceeds(i) == TryBlockEnds(i) /\ UNCHANGED fileUploadVars

\* as UploadFails, without the finally block
UploadFailsWithoutFinally(i) ==
    /\ uploads[i].pc = "parsing"
    /\ \E decoded \in DecodedContents :
           LET parsedData == parseFile(files[i], decoded)
           IN  /\ parsedData.threw
               /\ uploads' = [uploads EXCEPT ![i] =
                      [pc |-> "finished",
                       engineInput |-> None,
                       toast |-> Some(toastOf("Analysis Failed", parsedData.message))]]
    /\ UNCHANGED <<files, currentFile, analysisData, isAnalyzing, snapshot, results, slots,
                   fileUploadVars>>

\* parseFile rejects, or analyzeData throws: the catch block
UploadFails(i) ==
    /\ uploads[i].pc = "parsing"
    /\ \E decoded \in DecodedContents :
           LET parsedData == parseFile(files[i], decoded)
           IN  \/ /\ parsedData.threw
                  /\ uploads' = [uploads EXCEPT ![i] =
                         [pc |-> "finished",
                          engineInput |-> None,
                          toast |-> Some(toastOf("Analysis Failed", parsedData.message))]]
               \/ /\ ~parsedData.threw
                  /\ \E rnd \in RandomDrawsOf(parsedData.value) :
                         analyzeData(parsedData.value, rnd[1], rnd[2]).threw
                  /\ uploads' = [uploads EXCEPT ![i] =
                         [pc |-> "finished",
                          engineInput |-> Some(parsedData.value),
                          toast |-> Some(toastOf("Analysis Failed", "TypeError"))]]
    /\ isAnalyzing' = FALSE
    /\ UNCHANGED <<files, currentFile, analysisData, snapshot, results, slots, fileUploadVars>>

handleReset ==
    /\ currentFile' = None
    /\ analysisData' = None
    /\ isAnalyzing' = FALSE
    /\ UNCHANGED <<files, uploads, snapshot, results, slots, fileUploadVars>>

UploadNext ==
    \/ StartUpload
    \/ \E i \in 1..Len(uploads) : UploadSucceeds(i)
    \/ \E i \in 1..Len(uploads) : UploadFails(i)
    \/ handleReset

UploadSpec == UploadInit /\ [][UploadNext]_vars

\* the promise of parseFile settles and the continuation of some call runs
UploadSettles == \E i \in 1..Len(uploads) : UploadSucceeds(i) \/ UploadFails(i)

\* what a call that ends leaves in uploads: the try block ran to its end, or
\* the catch block ran
EndOfUpload(file, decoded) ==
    LET parsedData == parseFile(file, decoded)
    IN  IF parsedData.threw
        THEN [pc |-> "finished", engineInput |-> None,
              toast |-> Some(toastOf("Analysis Failed", parsedData.message))]
        ELSE IF performCrashAnalysisThrows(parsedData.value)
        THEN [pc |-> "finished", engineInput |-> Some(parsedData.value),
              toast |-> Some(toastOf("Analysis Failed", "TypeError"))]
        ELSE [pc |-> "finished", engineInput |-> Some(parsedData.value),
              toast |-> Some(toastOf("Analysis Complete",
                                     "Successfully analyzed " \o file.name))]

\* UploadSettles as seen on uploads alone: some pending call ends.  A pending
\* call can always end (parseFile resolves or rejects, and whatever is thrown
\* after it is caught), so the two actions are enabled in the same states
\* and, within UploadNext, are the same steps.
UploadEnds ==
    \E i \in 1..Len(uploads) :
        /\ uploads[i].pc = "parsing"
        /\ \E decoded \in DecodedContents :
               uploads' = [uploads EXCEPT ![i] = EndOfUpload(files[i], decoded)]

\* the upload flow where every pending promise settles in the end:
\* file.arrayBuffer() resolves or rejects, and the continuation is then run
UploadLiveSpec == UploadSpec /\ WF_uploads(UploadEnds)

(***************************************************************************)
(* FileUpload.  handleFile validates the file and, if it is valid, resets  *)
(* the progress, starts the progress interval and calls onFileUpload,      *)
(* which is MemoryDumpAnalyzer's handleFileUpload and runs up to its       *)
(* await.  A file carries its name, its size and its leading bytes.        *)
(* FileUpload is rendered while the Dashboard is not, and its drop zone    *)
(* and file input take no event while isAnalyzing: handleFile is called    *)
(* in those states only, and handleReset from the Dashboard only.  When    *)
(* the Dashboard replaces FileUpload its state is dropped; the next        *)
(* FileUpload starts from useState(0) with no interval.                    *)
(***************************************************************************)
\* 500 * 1024 * 1024
maxSize == 524288000

allowedExtensions == <<".dmp", ".mdmp">>

\* the step and the cap of the progress interval
ProgressStep == 10
ProgressCap == 90

\* String.prototype.lastIndexOf for one character: 0-based, -1 if absent
lastIndexOf(s, c) ==
    LET found == {i \in 1..Len(s) : CharAt(s, i) = c}
    IN  IF found = {} THEN -1 ELSE (CHOOSE i \in found : \A j \in found : j <= i) - 1

\* String.prototype.substring(start): a negative start counts as 0
substring(s, start) ==
    LET from == IF start < 0 THEN 0 ELSE IF start > Len(s) THEN Len(s) ELSE start
    IN  SubSeq(s, from + 1, Len(s))

\* as fileExtension, without toLowerCase
fileExtensionAsWritten(name) == substring(name, lastIndexOf(name, "."))

\* file.name.toLowerCase().substring(file.name.lastIndexOf('.'))
fileExtension(name) == substring(toLowerCase(name), lastIndexOf(name, "."))

\* validateFile: the value it returns and the toast it shows
validateFile(file) ==
    IF ~(\E k \in 1..Len(allowedExtensions) : allowedExtensions[k] = fileExtension(file.name))
    THEN [valid |-> FALSE,
          toast |-> Some(toastOf("Invalid file type",
                                 "Please upload a valid memory dump file (.dmp or .mdmp)"))]
    ELSE IF file.size > maxSize
    THEN [valid |-> FALSE,
          toast |-> Some(toastOf("File too large", "File size must be less than 500MB"))]
    ELSE [valid |-> TRUE, toast |-> None]

\* a file of the given size that starts with these bytes
SizedFile(name, size, bytes) == [name |-> name, size |-> size, bytes |-> bytes]

FileNames ==
    {"crash.dmp", "CRASH.MDMP", "notes.txt", "dmp", "crash.dmp.zip", "x.mdmp.dmp"}

\* what the user drops or selects
DroppedFiles ==
    {SizedFile(n, sz, <<77, 68, 77, 80>>) : n \in FileNames, sz \in {maxSize, maxSize + 1}}
        \cup {SizedFile("crash.dmp", 4, <<80, 77, 68, 77>>)}

\* calls of handleFile in one behaviour
MaxDrops == 2

FileUploadInit ==
    /\ files = <<>>
    /\ uploads = <<>>
    /\ currentFile = None
    /\ analysisData = None
    /\ isAnalyzing = FALSE
    /\ snapshot = NoSnapshot
    /\ results = <<>>
    /\ slots = NoSlots
    /\ FileUploadIdle

\* as HandleFile, with the upload zone left enabled while isAnalyzing
HandleFileWhileAnalyzing ==
    /\ Len(handled) < MaxDrops
    /\ ~DashboardShown
    /\ \E file \in DroppedFiles :
           LET validation == validateFile(file)
           IN  /\ handled' = Append(handled, [file |-> file, valid |-> validation.valid,
                                              toast |-> validation.toast])
               /\ IF ~validation.valid
                  THEN UNCHANGED <<uploadProgress, timers, files, uploads, isAnalyzing>>
                  ELSE /\ uploadProgress' = 0
                       /\ timers' = timers + 1
                       /\ files' = Append(files, file)
                       /\ uploads' = Append(uploads, [pc |-> "parsing", engineInput |-> None,
                                                      toast |-> None])
                       /\ isAnalyzing' = TRUE
    /\ UNCHANGED <<currentFile, analysisData, snapshot, results, slots>>

\* handleFile(file), with handleFileUpload(file) up to its await
HandleFile ==
    /\ Len(handled) < MaxDrops
    /\ ~DashboardShown
    /\ ~isAnalyzing
    /\ \E file \in DroppedFiles :
           LET validation == validateFile(file)
           IN  /\ handled' = Append(handled, [file |-> file, valid |-> validation.valid,
                                              toast |-> validation.toast])
               /\ IF ~validation.valid
                  THEN UNCHANGED <<uploadProgress, timers, files, uploads, isAnalyzing>>
                  ELSE /\ uploadProgress' = 0
                       /\ timers' = timers + 1
                       /\ files' = Append(files, file)
                       /\ uploads' = Append(uploads, [pc |-> "parsing", engineInput |-> None,
                                                      toast |-> None])
                       /\ isAnalyzing' = TRUE
    /\ UNCHANGED <<currentFile, analysisData, snapshot, results, slots>>

\* one firing of an interval: setUploadProgress(prev => ...)
ProgressTick ==
    /\ timers > 0
    /\ ~DashboardShown
    /\ IF uploadProgress >= ProgressCap
       THEN uploadProgress' = ProgressCap /\ timers' = timers - 1
       ELSE uploadProgress' = uploadProgress + ProgressStep /\ timers' = timers
    /\ UNCHANGED <<handled, analyzerVars, snapshot, results, slots>>

\* the try block runs to its end, and the Dashboard replaces FileUpload
UploadSucceedsToDashboard(i) ==
    /\ TryBlockEnds(i)
    /\ uploadProgress' = 0
    /\ timers' = 0
    /\ UNCHANGED handled

\* the Dashboard's onReset
ResetFromDashboard == DashboardShown /\ handleReset

FileUploadNext ==
    \/ HandleFile
    \/ ProgressTick
    \/ \E i \in 1..Len(uploads) : UploadSucceedsToDashboard(i)
    \/ \E i \in 1..Len(uploads) : UploadFails(i)
    \/ ResetFromDashboard

FileUploadSpec == FileUploadInit /\ [][FileUploadNext]_vars

(***************************************************************************)
(* The engine alone: calls of analyzeData on one snapshot.                 *)
(***************************************************************************)
Init ==
    /\ \/ snapshot \in ExceptionTextFamily
       \/ snapshot \in OptionalsFamily
       \/ snapshot \in ModuleFamily
       \/ snapshot \in StackTraceFamily
       \/ snapshot \in WaitGraphFamily
       \/ snapshot \in StackFamily
       \/ snapshot \in FlagsFamily
       \/ snapshot \in DecoderFamily
    /\ results = <<>>
    /\ AnalyzerIdle
    /\ slots = NoSlots
    /\ FileUploadIdle

\* one call AnalysisEngine.analyzeData(snapshot)
AnalyzeData ==
    /\ Len(results) < MaxCalls
    /\ \E rnd \in RandomDrawsOf(snapshot) :
           results' = Append(results, analyzeData(snapshot, rnd[1], rnd[2]))
    /\ UNCHANGED <<snapshot, analyzerVars, slots, fileUploadVars>>

Next == AnalyzeData

Spec == Init /\ [][Next]_vars

(***************************************************************************)
(* The stages of performCrashAnalysis as tasks.  Each of the statements    *)
(* that compute crashPattern ... evidence is one task, run once, in any    *)
(* order; a task is handed the snapshot and, where the statement names a   *)
(* local of another task (crashPattern in generateTechnicalEvidence's      *)
(* call), whatever that task has written so far.  When all tasks are done  *)
(* the orchestrator runs the remaining statements and returns.             *)
(***************************************************************************)
Stages ==
    {"crashPattern", "deadlock", "memoryCorruption", "stack", "heap",
     "problemModules", "evidence"}

\* the value of another task's slot: undefined (<<>>) until it is written
SlotOf(stage) == IF stage \in DOMAIN slots THEN slots[stage] ELSE <<>>

\* the statement(s) of one stage
StageResult(stage, rnd) ==
    CASE stage = "crashPattern" -> detectCrashPattern(snapshot.exception)
      [] stage = "deadlock" ->
            [deadlockDetected |-> detectDeadlocks(snapshot.threads),
             deadlockInfo |-> analyzeDeadlocks(snapshot.threads)]
      [] stage = "memoryCorruption" ->
            detectMemoryCorruption(snapshot.exception, snapshot.modules)
      [] stage = "stack" ->
            [stackOverflow |-> detectStackOverflow(snapshot.exception, snapshot.threads),
             stackAnalysis |-> analyzeStack(snapshot.exception, snapshot.threads)]
      [] stage = "heap" ->
            analyzeHeap(snapshot.exception, snapshot.modules, rnd[1], rnd[2])
      [] stage = "problemModules" ->
            findProblematicModules(snapshot.modules, snapshot.exception)
      [] stage = "evidence" ->
            generateTechnicalEvidence(snapshot, SlotOf("crashPattern"))

\* the snapshots the tasks are run on
StageSnapshots ==
    FlagsFamily \cup OptionalsFamily
        \cup {s \in ExceptionTextFamily :
                 s.exception.code = HeapCorruptionCode /\ s.exception.severity = "critical"}

StageInit ==
    /\ snapshot \in StageSnapshots
    /\ results = <<>>
    /\ slots = NoSlots
    /\ AnalyzerIdle
    /\ FileUploadIdle

\* one task runs and writes its own slot
RunStage ==
    /\ results = <<>>
    /\ \E stage \in Stages \ DOMAIN slots :
           \E rnd \in (IF stage = "heap" THEN RandomDrawsOf(snapshot) ELSE {<<0, 0>>}) :
               slots' = [s \in DOMAIN slots \cup {stage} |->
                            IF s = stage THEN StageResult(stage, rnd) ELSE slots[s]]
    /\ UNCHANGED <<snapshot, results, analyzerVars, fileUploadVars>>

\* the join: recommendations, confidence, alternativeExplanations, return
JoinStages ==
    /\ DOMAIN slots = Stages
    /\ results = <<>>
    /\ LET crashPattern == slots["crashPattern"]
           recommendations ==
               generateRecommendations(crashPattern, slots["deadlock"].deadlockDetected,
                                       slots["memoryCorruption"],
                                       slots["stack"].stackOverflow,
                                       slots["problemModules"])
           confidence == calculateConfidence(snapshot)
           alternativeExplanations ==
               generateAlternativeExplanations(crashPattern, slots["evidence"])
           analysis ==
               [crashType |-> crashPattern.type,
                severity |-> crashPattern.severity,
                likelyRootCause |-> crashPattern.rootCause,
                confidence |-> confidence,
                recommendations |-> recommendations,
                problemModules |-> slots["problemModules"],
                deadlockDetected |-> slots["deadlock"].deadlockDetected,
                memoryCorruption |-> slots["memoryCorruption"],
                stackOverflow |-> slots["stack"].stackOverflow,
                evidence |-> slots["evidence"],
                deadlockInfo |-> slots["deadlock"].deadlockInfo,
                heapAnalysis |-> slots["heap"],
                stackAnalysis |-> slots["stack"].stackAnalysis,
                alternativeExplanations |-> alternativeExplanations]
       IN  results' = <<[threw |-> FALSE, value |-> [snapshot EXCEPT !.analysis = analysis]]>>
    /\ UNCHANGED <<snapshot, slots, analyzerVars, fileUploadVars>>

StageNext == RunStage \/ JoinStages

StageSpec == StageInit /\ [][StageNext]_vars

(***************************************************************************)
(* Properties.  Returned(k): call k returned; Analysis(k): the diagnosis   *)
(* it returned.                                                            *)
(***************************************************************************)
Calls == 1..Len(results)
Returned(k) == ~results[k].threw
Analysis(k) == results[k].value.analysis

\* C1: Determinism: two calls of analyzeData on the same snapshot return
\* analyses that are equal field by field.
C1_Determinism ==
    \A i, j \in Calls : results[i] = results[j]

\* C2: Confidence bounds: the confidence returned by analyzeData is a number c
\* with 0 <= c <= 100, for any number of threads and modules, zero included.
C2_ConfidenceBounds ==
    \A k \in Calls :
        Returned(k) =>
            /\ NumLeq(Num(0), Analysis(k).confidence)
            /\ NumLeq(Analysis(k).confidence, Num(100))

AnalysisDataFields ==
    {"fileInfo", "systemInfo", "processInfo", "exception", "threads", "modules",
     "analysis", "statistics"}

CrashAnalysisFields ==
    {"crashType", "severity", "likelyRootCause", "confidence", "recommendations",
     "problemModules", "deadlockDetected", "memoryCorruption", "stackOverflow",
     "evidence", "deadlockInfo", "heapAnalysis", "stackAnalysis",
     "alternativeExplanations"}

\* C3: analyzeData never throws, however empty the snapshot: every call
\* returns an object with every field of AnalysisData, whose analysis has every
\* field of CrashAnalysis set.
C3_NeverThrows ==
    \A k \in Calls :
        /\ Returned(k)
        /\ DOMAIN results[k].value = AnalysisDataFields
        /\ DOMAIN Analysis(k) = CrashAnalysisFields

\* the snapshot with nothing optional in it: no thread (so no main thread, no
\* wait objects, no stack bounds), no module, no registers, no instruction
EmptySnapshot ==
    /\ snapshot.threads = <<>>
    /\ snapshot.modules = <<>>
    /\ snapshot.exception.registers = None
    /\ snapshot.exception.faultingInstruction = None

C3_Witness ==
    /\ EmptySnapshot
    /\ Len(results) = MaxCalls
    /\ \A k \in Calls : Returned(k) /\ DOMAIN Analysis(k) = CrashAnalysisFields

(***************************************************************************)
(* C4: graceful degradation.                                               *)
(***************************************************************************)
\* no exception registers, no wait objects on any thread, exactly one thread,
\* whose stack trace is empty
DegradedSnapshot ==
    /\ snapshot.exception.registers = None
    /\ \A i \in 1..Len(snapshot.threads) : snapshot.threads[i].waitObjects = None
    /\ Len(snapshot.threads) = 1
    /\ snapshot.threads[1].stackTrace = 0

\* 30 when exception.code is present and not 'Unknown', otherwise 0
CodeTermOf(exception) ==
    IF exception.code # "" /\ exception.code # "Unknown" THEN Num(30) ELSE Num(0)

EvidenceTypes(k) ==
    {Analysis(k).evidence[i].type : i \in 1..Len(Analysis(k).evidence)}

NoInstruction(exception) ==
    exception.faultingInstruction = None \/ exception.faultingInstruction = Some("")

SomeModuleHasSymbols ==
    \E i \in 1..Len(snapshot.modules) : snapshot.modules[i].hasSymbols

SomeModuleIsExceptionModule ==
    \E i \in 1..Len(snapshot.modules) :
        snapshot.modules[i].name = snapshot.exception.module

C5_ProblemModulesNoDuplicates ==
    \A k \in Calls : Returned(k) => NoDuplicates(Analysis(k).problemModules)

\* the exception's module is a non-system module without symbols whose name
\* is suspicious: its name is pushed three times
C5_Witness ==
    /\ \E i \in 1..Len(snapshot.modules) :
           /\ snapshot.modules[i].name = snapshot.exception.module
           /\ ~snapshot.modules[i].hasSymbols
           /\ ~snapshot.modules[i].isSystemModule
           /\ includes(snapshot.modules[i].name, "Unknown")
    /\ Len(results) > 0
    /\ Returned(1)
    /\ Len(SelectSeq(problematicPushed(snapshot.modules, snapshot.exception),
                     LAMBDA n : n = snapshot.exception.module)) = 3
    /\ Len(SelectSeq(Analysis(1).problemModules,
                     LAMBDA n : n = snapshot.exception.module)) = 1

\* C6: recommendations contains no duplicate string.
C6_RecommendationsNoDuplicates ==
    \A k \in Calls : Returned(k) => NoDuplicates(Analysis(k).recommendations)

\* the only problem module is named like a fixed recommendation line
C6_Witness ==
    /\ Len(results) > 0
    /\ Returned(1)
    /\ Analysis(1).problemModules = <<ThirdPartyRecommendation>>
    /\ \E i \in 1..Len(Analysis(1).recommendations) :
           Analysis(1).recommendations[i] =
               "Update or replace problematic modules: " \o ThirdPartyRecommendation

\* all five blocks of recommendations at once
C6_AllBlocks ==
    /\ Len(results) > 0
    /\ Returned(1)
    /\ Analysis(1).crashType = "Access Violation"
    /\ Analysis(1).stackOverflow
    /\ Analysis(1).deadlockDetected
    /\ Analysis(1).memoryCorruption
    /\ Len(Analysis(1).problemModules) > 0
    /\ Len(Analysis(1).recommendations) = 17

(***************************************************************************)
(* C7: cycle soundness.                                                    *)
(***************************************************************************)
CyclesOf(k) ==
    IF "cycles" \in DOMAIN Analysis(k).deadlockInfo
    THEN Analysis(k).deadlockInfo.cycles ELSE <<>>

\* the threads of the snapshot with this id
ThreadsWithId(id) ==
    {i \in 1..Len(snapshot.threads) : snapshot.threads[i].id = id}

WaitsOnHandle(t, handle) ==
    /\ IsSome(t.waitObjects)
    /\ \E n \in 1..Len(Get(t.waitObjects)) : Get(t.waitObjects)[n].handle = handle

SoundCycle(cycle) ==
    /\ Len(cycle.threads) >= 2
    /\ NoDuplicates(cycle.threads)
    /\ \A n \in 1..Len(cycle.threads) :
           /\ ThreadsWithId(cycle.threads[n]) # {}
           /\ \A i \in ThreadsWithId(cycle.threads[n]) :
                  /\ snapshot.threads[i].state \in {"waiting", "blocked"}
                  /\ \A r \in 1..Len(cycle.resources) :
                         WaitsOnHandle(snapshot.threads[i], cycle.resources[r])
    /\ Len(cycle.resources) > 0

\* C7: every entry of deadlockInfo.cycles lists at least two distinct ids of
\* waiting or blocked threads of the snapshot, and a non-empty list of handles
\* each of which is among the wait objects of every listed thread.
C7_CycleSoundness ==
    \A k \in Calls :
        Returned(k) => \A c \in 1..Len(CyclesOf(k)) : SoundCycle(CyclesOf(k)[c])

\* two cycles, one of them on two shared handles
C7_Witness ==
    /\ Len(results) > 0
    /\ Returned(1)
    /\ Len(CyclesOf(1)) >= 2
    /\ \E c \in 1..Len(CyclesOf(1)) : Len(CyclesOf(1)[c].resources) = 2
    /\ \A c \in 1..Len(CyclesOf(1)) : SoundCycle(CyclesOf(1)[c])

(***************************************************************************)
(* C8, C9: the classifier.                                                 *)
(***************************************************************************)
SeverityOfCategory(category) ==
    CASE category = "Access Violation" -> "critical"
      [] category = "Stack Overflow" -> "critical"
      [] category = "Heap Corruption" -> "critical"
      [] category = "Divide By Zero" -> "high"
      [] category = "Unknown Exception" -> "medium"
      [] OTHER -> "none"

\* C8: the severity is a function of the category alone.
C8_SeverityFromCategory ==
    \A k \in Calls :
        Returned(k) => Analysis(k).severity = SeverityOfCategory(Analysis(k).crashType)

\* a divide-by-zero crash whose exception carries another severity hint
C8_Witness ==
    /\ Len(results) > 0
    /\ Returned(1)
    /\ Analysis(1).crashType = "Divide By Zero"
    /\ Analysis(1).severity = "high"
    /\ snapshot.exception.severity = "critical"

\* a keyword of the rule is contained in the lower-cased text
RuleMatches(rule, text) ==
    \E n \in 1..Len(rule.keywords) : includes(text, toLowerCase(rule.keywords[n]))

\* the lower-cased code + ' ' + description, and the rules that match it
MatchingRules ==
    LET text == toLowerCase(snapshot.exception.code \o " " \o snapshot.exception.description)
    IN  [r \in 1..Len(CRASH_PATTERNS) |-> RuleMatches(CRASH_PATTERNS[r], text)]

CategoryNames ==
    <<"Access Violation", "Stack Overflow", "Heap Corruption", "Divide By Zero">>

\* C9: the category is that of the first rule of the table, in the order
\* accessViolation, stackOverflow, heapCorruption, divideByZero, with a keyword
\* in the text; the root cause is that rule's first candidate cause.
C9_FirstMatchWins ==
    Len(results) > 0 =>
        LET matching == MatchingRules
        IN  \A k \in Calls :
                Returned(k) =>
                    \A r \in 1..Len(CRASH_PATTERNS) :
                        (matching[r] /\ \A q \in 1..(r - 1) : ~matching[q])
                            => /\ Analysis(k).crashType = CategoryNames[r]
                               /\ Analysis(k).likelyRootCause
                                      = CRASH_PATTERNS[r].commonCauses[1]

\* the stack-overflow, heap-corruption and divide-by-zero rules all match, the
\* access-violation rule does not: the stack-overflow rule wins
C9_Witness ==
    /\ Len(results) > 0
    /\ Returned(1)
    /\ ~MatchingRules[1]
    /\ \A r \in 2..4 : MatchingRules[r]
    /\ Analysis(1).crashType = "Stack Overflow"
    /\ Analysis(1).likelyRootCause = "Infinite recursion"

\* the spec's scenario: the access-violation code with 'access violation' in
\* the description
C9_Scenario ==
    (/\ Len(results) > 0
     /\ snapshot.exception.code = AccessViolationCode
     /\ snapshot.exception.description = "Access Violation")
        => /\ Analysis(1).crashType = "Access Violation"
           /\ Analysis(1).severity = "critical"
           /\ Analysis(1).likelyRootCause = "Null pointer dereference"

(***************************************************************************)
(* C10: the confidence formula.                                            *)
(***************************************************************************)
ThreadsWithStacks == {i \in 1..Len(snapshot.threads) : snapshot.threads[i].stackTrace > 0}
ModulesWithSymbols == {i \in 1..Len(snapshot.modules) : snapshot.modules[i].hasSymbols}

MinInt(a, b) == IF a <= b THEN a ELSE b

\* a + b + c + d with c = min(25, 25 x symbols / modules), 0 without modules;
\* the sum is within 0..100, so the clamp leaves it
ConfidenceFormula ==
    LET a == IF snapshot.exception.code # "" /\ snapshot.exception.code # "Unknown"
             THEN 30 ELSE 0
        b == MinInt(30, 5 * Cardinality(ThreadsWithStacks))
        d == IF snapshot.exception.module # "" /\ SomeModuleIsExceptionModule
             THEN 15 ELSE 0
        m == Len(snapshot.modules)
    IN  IF m = 0 THEN Num(a + b + d)
        ELSE Rat((a + b + d) * m + 25 * Cardinality(ModulesWithSymbols), m)

\* C10: confidence = clamp to [0,100] of (a + b + c + d), with c = 0 when the
\* snapshot has no modules.
C10_ConfidenceFormula ==
    \A k \in Calls : Returned(k) => Analysis(k).confidence = ConfidenceFormula

\* the formula agrees with the code on every snapshot that has modules
C10_FormulaWithModules ==
    \A k \in Calls :
        (Returned(k) /\ Len(snapshot.modules) > 0)
            => Analysis(k).confidence = ConfidenceFormula

\* the spec's example: 30 + 10 + 25 + 15 = 80
C10_Example ==
    /\ Len(results) > 0
    /\ Returned(1)
    /\ snapshot.exception.code = AccessViolationCode
    /\ Cardinality(ThreadsWithStacks) = 2
    /\ Len(snapshot.modules) > 0
    /\ Cardinality(ModulesWithSymbols) = Len(snapshot.modules)
    /\ SomeModuleIsExceptionModule
    /\ Analysis(1).confidence = Num(80)

(***************************************************************************)
(* C11, C12: the boolean flags.                                            *)
(***************************************************************************)
BoolToInt(b) == IF b THEN 1 ELSE 0

DescriptionHasCorruption ==
    includes(toLowerCase(snapshot.exception.description), "corruption")

SomeModuleUnknownOrWithoutSymbols ==
    \E i \in 1..Len(snapshot.modules) :
        \/ includes(toLowerCase(snapshot.modules[i].name), "unknown")
        \/ ~snapshot.modules[i].hasSymbols

\* how many of the four indicators hold of the snapshot
IndicatorCount ==
    BoolToInt(snapshot.exception.code = "0xC0000005")
        + BoolToInt(snapshot.exception.code = "0xC0000374")
        + BoolToInt(DescriptionHasCorruption)
        + BoolToInt(SomeModuleUnknownOrWithoutSymbols)

\* C11: memoryCorruption is true if and only if at least two of the four
\* indicators hold (access-violation code, heap-corruption code, 'corruption'
\* in the lower-cased description, a module named 'unknown' or without symbols).
C11_MemoryCorruptionIffTwoIndicators ==
    \A k \in Calls :
        Returned(k) => (Analysis(k).memoryCorruption <=> IndicatorCount >= 2)

\* the access-violation code and a module lacking symbols, no 'corruption'
\* keyword: two of four indicators
C11_Witness ==
    /\ Len(results) > 0
    /\ Returned(1)
    /\ snapshot.exception.code = "0xC0000005"
    /\ ~DescriptionHasCorruption
    /\ \E i \in 1..Len(snapshot.modules) : ~snapshot.modules[i].hasSymbols
    /\ IndicatorCount = 2
    /\ Analysis(1).memoryCorruption

\* a single indicator does not set the flag
C11_SingleIndicator ==
    /\ Len(results) > 0
    /\ Returned(1)
    /\ IndicatorCount = 1
    /\ ~Analysis(1).memoryCorruption

\* the indices of the threads flagged isMainThread
MainThreadIndices == {i \in 1..Len(snapshot.threads) : snapshot.threads[i].isMainThread}

\* the main thread is the first thread flagged isMainThread
FirstMainIndex == CHOOSE i \in MainThreadIndices : \A j \in MainThreadIndices : i <= j

MainThreadDeeperThan(n) ==
    MainThreadIndices # {} /\ snapshot.threads[FirstMainIndex].stackTrace > n

\* C12: stackOverflow is true if and only if exception.code is '0xC00000FD' or
\* the main thread (the first thread with isMainThread) has a stack trace of
\* more than 50 frames.
C12_StackOverflowIff ==
    \A k \in Calls :
        Returned(k) =>
            (Analysis(k).stackOverflow
                <=> (snapshot.exception.code = "0xC00000FD" \/ MainThreadDeeperThan(50)))

\* a thread that is not the main thread is deeper than 50 frames, the main
\* thread is not, the code is another one: the flag is not set
C12_Witness ==
    /\ Len(results) > 0
    /\ Returned(1)
    /\ snapshot.exception.code # "0xC00000FD"
    /\ MainThreadIndices # {}
    /\ snapshot.threads[FirstMainIndex].stackTrace = 50
    /\ \E i \in 1..Len(snapshot.threads) :
           i # FirstMainIndex /\ snapshot.threads[i].stackTrace > 50
    /\ ~Analysis(1).stackOverflow

\* the main thread alone sets the flag
C12_DeepMainThread ==
    /\ Len(results) > 0
    /\ Returned(1)
    /\ snapshot.exception.code # "0xC00000FD"
    /\ MainThreadDeeperThan(50)
    /\ Analysis(1).stackOverflow

(***************************************************************************)
(* C14: analyzeData leaves its input alone.                                *)
(***************************************************************************)
CarriedFields ==
    {"fileInfo", "systemInfo", "processInfo", "exception", "threads", "modules",
     "statistics"}

\* the returned object carries the snapshot's fields, the analysis apart
CarriesSnapshot(result) ==
    /\ ~result.threw
    /\ DOMAIN result.value = CarriedFields \cup {"analysis"}
    /\ \A f \in CarriedFields : result.value[f] = snapshot[f]

\* C14: a call of analyzeData leaves the snapshot (its previous analysis
\* included) unchanged, and the object it returns carries the snapshot's fields
\* unchanged, with only the analysis replaced by the new diagnosis.
C14_InputNotMutated ==
    [][/\ snapshot' = snapshot
       /\ CarriesSnapshot(results'[Len(results')])
       /\ results'[Len(results')].value.analysis # snapshot.analysis]_vars

\* after two calls the snapshot still holds its pending analysis, and the
\* returned objects hold a diagnosis of a snapshot with threads and modules
C14_Witness ==
    /\ Len(results) = MaxCalls
    /\ Len(snapshot.threads) > 1
    /\ Len(snapshot.modules) > 1
    /\ snapshot.analysis.likelyRootCause = "Analysis pending..."
    /\ \A k \in Calls :
           /\ CarriesSnapshot(results[k])
           /\ Analysis(k).likelyRootCause # "Analysis pending..."

(***************************************************************************)
(* C15, C16: waiters.                                                      *)
(***************************************************************************)
HandlesOfThread(t) ==
    IF IsSome(t.waitObjects)
    THEN {Get(t.waitObjects)[n].handle : n \in 1..Len(Get(t.waitObjects))}
    ELSE {}

\* a waiter: state waiting or blocked, and a non-empty list of wait objects
IsWaiter(t) == t.state \in {"waiting", "blocked"} /\ HandlesOfThread(t) # {}

\* the pairs of threads, in snapshot order, of the given kind that share a handle
SharingPairs(IsOfKind(_)) ==
    {p \in (1..Len(snapshot.threads)) \X (1..Len(snapshot.threads)) :
        /\ p[1] < p[2]
        /\ IsOfKind(snapshot.threads[p[1]])
        /\ IsOfKind(snapshot.threads[p[2]])
        /\ HandlesOfThread(snapshot.threads[p[1]])
               \cap HandlesOfThread(snapshot.threads[p[2]]) # {}}

\* the entry of the pair: its two ids, the shared handles, one evidence item
\* with confidence 80
IsEntryOf(cycle, p) ==
    /\ cycle.threads = <<snapshot.threads[p[1]].id, snapshot.threads[p[2]].id>>
    /\ Range(cycle.resources)
           = HandlesOfThread(snapshot.threads[p[1]])
                 \cap HandlesOfThread(snapshot.threads[p[2]])
    /\ Len(cycle.evidence) = 1
    /\ cycle.evidence[1].confidence = 80

CyclesComplete(k, pairs) ==
    /\ \A p \in pairs :
           Cardinality({c \in 1..Len(CyclesOf(k)) : IsEntryOf(CyclesOf(k)[c], p)}) = 1
    /\ Len(CyclesOf(k)) = Cardinality(pairs)
    /\ Analysis(k).deadlockInfo.detected <=> pairs # {}

\* C15: deadlockInfo.cycles holds one entry for every pair of waiters (waiting
\* or blocked, with wait objects) that share a handle, with the shared handles
\* and one evidence item of confidence 80, and no other entry.
C15_CycleCompleteness ==
    \A k \in Calls : Returned(k) => CyclesComplete(k, SharingPairs(IsWaiter))

IsWaitingWaiter(t) == t.state = "waiting" /\ HandlesOfThread(t) # {}

\* what the code does: the same with the threads in state 'waiting' only
C15_CompleteForWaitingThreads ==
    \A k \in Calls : Returned(k) => CyclesComplete(k, SharingPairs(IsWaitingWaiter))

\* the spec's example: T1 waiting on H1, T2 waiting on H1 and H2, T3 running
C15_Example ==
    /\ Len(results) > 0
    /\ Returned(1)
    /\ Len(snapshot.threads) = 3
    /\ snapshot.threads[1].state = "waiting"
    /\ HandlesOfThread(snapshot.threads[1]) = {"0x000000A4"}
    /\ snapshot.threads[2].state = "waiting"
    /\ HandlesOfThread(snapshot.threads[2]) = {"0x000000A4", "0x000000B8"}
    /\ snapshot.threads[3].state = "running"
    /\ Len(CyclesOf(1)) = 1
    /\ CyclesOf(1)[1].threads = <<0, 1>>
    /\ CyclesOf(1)[1].resources = <<"0x000000A4">>
    /\ Analysis(1).deadlockInfo.detected

NumberOfWaiters ==
    Cardinality({i \in 1..Len(snapshot.threads) : IsWaiter(snapshot.threads[i])})

\* C16: deadlockDetected is true if and only if there is more than one waiter
\* and at least half of all threads are waiters, a waiter being a waiting or
\* blocked thread with a non-empty list of wait objects.
C16_DeadlockDetectedIff ==
    \A k \in Calls :
        Returned(k) =>
            (Analysis(k).deadlockDetected
                <=> (NumberOfWaiters > 1 /\ 2 * NumberOfWaiters >= Len(snapshot.threads)))

NumberWaitingOrBlocked ==
    Cardinality({i \in 1..Len(snapshot.threads) :
                    snapshot.threads[i].state \in {"waiting", "blocked"}})

\* what the code does: the threads waiting or blocked count, with or without
\* wait objects
C16_CountsWaitingOrBlocked ==
    \A k \in Calls :
        Returned(k) =>
            (Analysis(k).deadlockDetected
                <=> (/\ NumberWaitingOrBlocked > 1
                     /\ 2 * NumberWaitingOrBlocked >= Len(snapshot.threads)))

(***************************************************************************)
(* C17: the default of the classifier.                                     *)
(***************************************************************************)
NoRuleMatches == \A r \in 1..Len(CRASH_PATTERNS) : ~MatchingRules[r]

\* a candidate cause of the classifier's result names missing debug information
FlagsMissingDebugInformation ==
    LET causes == detectCrashPattern(snapshot.exception).possibleCauses
    IN  \E n \in 1..Len(causes) : includes(toLowerCase(causes[n]), "debug")

UnknownDefault(k, rootCause) ==
    /\ Analysis(k).crashType = "Unknown Exception"
    /\ Analysis(k).severity = "medium"
    /\ Analysis(k).likelyRootCause = rootCause
    /\ FlagsMissingDebugInformation

\* C17: when no rule matches the exception text the category is 'Unknown
\* Exception', the severity medium, the root cause 'insufficient information
\* to determine cause', and a candidate cause flags missing debug information.
C17_UnknownDefault ==
    Len(results) > 0 =>
        (NoRuleMatches =>
            \A k \in Calls :
                Returned(k) =>
                    UnknownDefault(k, "insufficient information to determine cause"))

\* what the code does: the same with the root cause it words differently
C17_UnknownDefaultAsCoded ==
    Len(results) > 0 =>
        (NoRuleMatches =>
            \A k \in Calls :
                Returned(k) =>
                    UnknownDefault(k, "Unable to determine root cause from available information"))

(***************************************************************************)
(* C18: heapAnalysis.                                                      *)
(***************************************************************************)
\* the block is as the claim describes it, flagged being its trigger
HeapAnalysisAsDescribed(k, flagged) ==
    LET heap == Analysis(k).heapAnalysis
    IN  /\ heap.corruptionDetected <=> flagged
        /\ heap.corruptionDetected =>
               /\ heap.corruptionPatterns
                      = << "Heap metadata corruption detected",
                           "Invalid heap block signature",
                           "Corrupted free list pointers" >>
               /\ Len(heap.evidence) = 1
               /\ heap.evidence[1].type = "heap_corruption"
               /\ heap.evidence[1].confidence = 90
        /\ ~heap.corruptionDetected => heap = [corruptionDetected |-> FALSE]

\* C18: heapAnalysis.corruptionDetected is true exactly when exception.code is
\* '0xC0000374' or the description contains 'corruption'; when true the block
\* has the three fixed labels and one heap_corruption evidence item with
\* confidence 90, when false it is { corruptionDetected: false } only.
C18_HeapAnalysisTrigger ==
    \A k \in Calls :
        Returned(k) =>
            HeapAnalysisAsDescribed(k,
                snapshot.exception.code = "0xC0000374" \/ DescriptionHasCorruption)

\* what the code does: the description is searched for 'heap'
C18_HeapAnalysisAsCoded ==
    \A k \in Calls :
        Returned(k) =>
            HeapAnalysisAsDescribed(k,
                \/ snapshot.exception.code = "0xC0000374"
                \/ includes(toLowerCase(snapshot.exception.description), "heap"))

(***************************************************************************)
(* C19: stackAnalysis.                                                     *)
(***************************************************************************)
MainThreadDepth ==
    IF MainThreadIndices = {} THEN 0 ELSE snapshot.threads[FirstMainIndex].stackTrace

\* the block is as the claim describes it: triggered being its trigger,
\* violated and intact the two guard-page statuses
StackAnalysisAsDescribed(k, triggered, violated, intact) ==
    LET stack == Analysis(k).stackAnalysis
    IN  /\ stack.overflowDetected <=> triggered
        /\ stack.overflowDetected =>
               /\ stack.stackDepth = MainThreadDepth
               /\ stack.guardPageStatus
                      = (IF snapshot.exception.code = "0xC00000FD" THEN violated ELSE intact)
               /\ Len(stack.evidence) = 1
               /\ stack.evidence[1].type = "instruction_analysis"
               /\ stack.evidence[1].confidence = 95

\* C19: stackAnalysis.overflowDetected is true if and only if stackOverflow is
\* true, for every depth of the main thread; when true, stackDepth is the main
\* thread's frame count, guardPageStatus is 'violated' for the stack-overflow
\* code and 'intact' otherwise, with one instruction_analysis evidence item of
\* confidence 95.
C19_StackAnalysisAgrees ==
    \A k \in Calls :
        Returned(k) =>
            StackAnalysisAsDescribed(k, Analysis(k).stackOverflow, "violated", "intact")

\* the agreement of the two flags alone
C19_FlagsAgree ==
    \A k \in Calls :
        Returned(k) =>
            (Analysis(k).stackAnalysis.overflowDetected <=> Analysis(k).stackOverflow)

\* what the code does: triggered from 50 frames on, statuses capitalised
C19_StackAnalysisAsCoded ==
    \A k \in Calls :
        Returned(k) =>
            StackAnalysisAsDescribed(k,
                \/ snapshot.exception.code = "0xC00000FD"
                \/ (MainThreadIndices # {} /\ MainThreadDepth >= 50),
                "Violated", "Intact")

(***************************************************************************)
(* C20: problemModules.                                                    *)
(***************************************************************************)
SuspiciousSubstrings == {"unknown", "corrupted", "unsigned", "debug", "test"}

IsSuspiciousModule(m) ==
    \E w \in SuspiciousSubstrings : includes(toLowerCase(m.name), w)

\* the names the claim lists
ExpectedProblemModules ==
    (IF snapshot.exception.module # "" THEN {snapshot.exception.module} ELSE {})
        \cup {snapshot.modules[i].name : i \in
                 {j \in 1..Len(snapshot.modules) :
                     \/ (~snapshot.modules[j].isSystemModule /\ ~snapshot.modules[j].hasSymbols)
                     \/ IsSuspiciousModule(snapshot.modules[j])}}

\* where a name is first seen: 0 for exception.module, otherwise the index of
\* the first module of that name
FirstSeen(name) ==
    IF snapshot.exception.module # "" /\ name = snapshot.exception.module THEN 0
    ELSE CHOOSE i \in 1..Len(snapshot.modules) :
             /\ snapshot.modules[i].name = name
             /\ \A j \in 1..(i - 1) : snapshot.modules[j].name # name

\* C20: problemModules is exactly exception.module (if non-empty), the names of
\* the non-system modules lacking symbols and the names of the modules with a
\* suspicious name, each once, in first-seen order.
C20_ProblemModulesExactly ==
    \A k \in Calls :
        Returned(k) =>
            LET pm == Analysis(k).problemModules
            IN  /\ Range(pm) = ExpectedProblemModules
                /\ Len(pm) = Cardinality(ExpectedProblemModules)
                /\ \A a, b \in 1..Len(pm) : a < b => FirstSeen(pm[a]) < FirstSeen(pm[b])

\* a system module lacking symbols with an unsuspicious name is left out, a
\* system module with symbols and a suspicious name is listed, after the
\* exception's module
C20_Witness ==
    /\ Len(results) > 0
    /\ Returned(1)
    /\ snapshot.exception.module # ""
    /\ \E i \in 1..Len(snapshot.modules) :
           /\ snapshot.modules[i].isSystemModule
           /\ ~snapshot.modules[i].hasSymbols
           /\ ~IsSuspiciousModule(snapshot.modules[i])
           /\ snapshot.modules[i].name \notin Range(Analysis(1).problemModules)
    /\ \E i \in 1..Len(snapshot.modules) :
           /\ snapshot.modules[i].isSystemModule
           /\ snapshot.modules[i].hasSymbols
           /\ snapshot.modules[i].name \in Range(Analysis(1).problemModules)
    /\ Len(Analysis(1).problemModules) = 3
    /\ Analysis(1).problemModules[1] = snapshot.exception.module

(***************************************************************************)
(* C21: the evidence list.                                                 *)
(***************************************************************************)
EvidenceKinds ==
    <<"register_state", "memory_pattern", "thread_state", "instruction_analysis">>

EvidenceConfidence ==
    [register_state |-> 85, memory_pattern |-> 90, thread_state |-> 70,
     instruction_analysis |-> 95]

NumberOfWaitingThreads ==
    Cardinality({i \in 1..Len(snapshot.threads) : snapshot.threads[i].state = "waiting"})

\* the precondition of each kind of evidence, read from the snapshot alone
EvidencePrecondition(kind) ==
    CASE kind = "register_state" ->
            /\ snapshot.exception.registers # None
            /\ \E r \in DOMAIN Get(snapshot.exception.registers) :
                   Get(snapshot.exception.registers)[r]
                       \in {"0x0000000000000000", "0x00000000"}
      [] kind = "memory_pattern" -> snapshot.exception.code = "0xC0000005"
      [] kind = "thread_state" -> NumberOfWaitingThreads > 2
      [] kind = "instruction_analysis" ->
            /\ snapshot.exception.faultingInstruction # None
            /\ snapshot.exception.faultingInstruction # Some("")

ExpectedEvidenceKinds == SelectSeq(EvidenceKinds, EvidencePrecondition)

\* C21: the evidence list holds, in the order register_state, memory_pattern,
\* thread_state, instruction_analysis, exactly the kinds whose own
\* precondition holds, each once and with its confidence (85, 90, 70, 95); so
\* it has 0 to 4 items and every confidence is within 0..100.
C21_EvidencePreconditions ==
    \A k \in Calls :
        Returned(k) =>
            LET evidence == Analysis(k).evidence
            IN  /\ Len(evidence) = Len(ExpectedEvidenceKinds)
                /\ Len(evidence) \in 0..4
                /\ \A i \in 1..Len(evidence) :
                       /\ evidence[i].type = ExpectedEvidenceKinds[i]
                       /\ evidence[i].confidence = EvidenceConfidence[evidence[i].type]
                       /\ evidence[i].confidence \in 0..100

\* all four preconditions hold and all four items are returned
C21_Witness ==
    /\ \A i \in 1..4 : EvidencePrecondition(EvidenceKinds[i])
    /\ Len(results) > 0
    /\ Returned(1)
    /\ [i \in 1..Len(Analysis(1).evidence) |-> Analysis(1).evidence[i].type] = EvidenceKinds

\* thread_state alone: three waiting threads, nothing else
C21_ThreadStateAlone ==
    /\ Len(results) > 0
    /\ Returned(1)
    /\ Len(Analysis(1).evidence) = 1
    /\ Analysis(1).evidence[1].type = "thread_state"
    /\ snapshot.exception.faultingInstruction = Some("")

(***************************************************************************)
(* C22: the recommendations.                                               *)
(***************************************************************************)
\* a block of lines, present or not
Block(present, lines) == IF present THEN lines ELSE <<>>

\* the two lines of the module block: the names joined with ', ' after the
\* fixed prefix, then the third-party line
ModuleBlock(problemModules) ==
    << "Update or replace problematic modules: " \o join(problemModules, ", "),
       "Ensure all third-party libraries are compatible with your application" >>

\* the blocks the diagnosis a calls for, read from its category and flags
ExpectedRecommendations(a) ==
    Block(includes(a.crashType, "Access Violation"), AccessViolationRecommendations)
        \o Block(a.stackOverflow, StackOverflowRecommendations)
        \o Block(a.deadlockDetected, DeadlockRecommendations)
        \o Block(a.memoryCorruption, MemoryCorruptionRecommendations)
        \o Block(a.problemModules # <<>>, ModuleBlock(a.problemModules))

LastThree(xs) == SubSeq(xs, Len(xs) - 2, Len(xs))

\* C22: recommendations is the access-violation block (3 lines) iff the
\* category contains 'Access Violation', the stack block (3) iff stackOverflow,
\* the deadlock block (3) iff deadlockDetected, the memory block (3) iff
\* memoryCorruption, the module block (2) iff problemModules is not empty, in
\* that order, followed by the three general recommendations, which are
\* always the last three entries; the list is never empty.
C22_RecommendationsByFlags ==
    \A k \in Calls :
        Returned(k) =>
            LET a == Analysis(k)
                blocks == ExpectedRecommendations(a)
            IN  /\ Len(a.recommendations) = Len(blocks) + 3
                /\ SubSeq(a.recommendations, 1, Len(blocks)) = blocks
                /\ LastThree(a.recommendations) = GeneralRecommendations
                /\ a.recommendations # <<>>
                /\ Len(AccessViolationRecommendations) = 3
                /\ Len(StackOverflowRecommendations) = 3
                /\ Len(DeadlockRecommendations) = 3
                /\ Len(MemoryCorruptionRecommendations) = 3

\* a stack overflow with a deadlock and nothing else: the stack block, the
\* deadlock block, the general block
C22_Witness ==
    /\ Len(results) > 0
    /\ Returned(1)
    /\ ~includes(Analysis(1).crashType, "Access Violation")
    /\ Analysis(1).stackOverflow
    /\ Analysis(1).deadlockDetected
    /\ ~Analysis(1).memoryCorruption
    /\ Analysis(1).problemModules = <<>>
    /\ Analysis(1).recommendations =
           StackOverflowRecommendations \o DeadlockRecommendations
               \o GeneralRecommendations

\* no flag and no block: the general recommendations alone
C22_GeneralOnly ==
    /\ Len(results) > 0
    /\ Returned(1)
    /\ Analysis(1).recommendations = GeneralRecommendations

(***************************************************************************)
(* C23: the alternative explanations.                                      *)
(***************************************************************************)
AccessViolationAlternatives ==
    << "Memory mapped file became invalid", "Virtual memory exhaustion",
       "Hardware memory error" >>

ThreadStateAlternatives ==
    << "Resource contention without deadlock", "Priority inversion scenario" >>

GeneralAlternatives ==
    << "Timing-dependent race condition", "External process interference" >>

HasThreadStateEvidence(k) ==
    \E i \in 1..Len(Analysis(k).evidence) : Analysis(k).evidence[i].type = "thread_state"

LastTwo(xs) == SubSeq(xs, Len(xs) - 1, Len(xs))

\* C23: alternativeExplanations holds 'Priority inversion scenario' and
\* 'Resource contention without deadlock' iff the top-level evidence list
\* holds a thread_state item, the three access-violation alternatives iff the
\* category contains 'Access Violation', and the two general alternatives as
\* its last two entries; nothing else decides the list (severity does not).
C23_AlternativesByEvidenceKind ==
    \A k \in Calls :
        Returned(k) =>
            LET a == Analysis(k)
                alternatives == Range(a.alternativeExplanations)
            IN  /\ \A x \in Range(ThreadStateAlternatives) :
                       x \in alternatives <=> HasThreadStateEvidence(k)
                /\ \A x \in Range(AccessViolationAlternatives) :
                       x \in alternatives <=> includes(a.crashType, "Access Violation")
                /\ Len(a.alternativeExplanations) >= 2
                /\ LastTwo(a.alternativeExplanations) = GeneralAlternatives
                /\ a.alternativeExplanations =
                       Block(includes(a.crashType, "Access Violation"),
                             AccessViolationAlternatives)
                           \o Block(HasThreadStateEvidence(k), ThreadStateAlternatives)
                           \o GeneralAlternatives

\* three waiting threads without an access violation: the priority-inversion
\* alternative is unlocked by the thread_state evidence
C23_Witness ==
    /\ Len(results) > 0
    /\ Returned(1)
    /\ HasThreadStateEvidence(1)
    /\ ~includes(Analysis(1).crashType, "Access Violation")
    /\ Analysis(1).alternativeExplanations = ThreadStateAlternatives \o GeneralAlternatives

\* a circular wait between two threads carries thread_state evidence inside
\* deadlockInfo only: the priority-inversion alternative stays out
C23_NestedEvidenceOnly ==
    /\ Len(results) > 0
    /\ Returned(1)
    /\ Analysis(1).deadlockInfo.detected
    /\ Analysis(1).deadlockInfo.cycles[1].evidence[1].type = "thread_state"
    /\ ~HasThreadStateEvidence(1)
    /\ Analysis(1).alternativeExplanations = GeneralAlternatives

(***************************************************************************)
(* C24: order independence of the stages.                                  *)
(***************************************************************************)
\* the draws the heap stage made, read back from what it wrote
DrawsOf(heapAnalysis) ==
    IF heapAnalysis.corruptionDetected
    THEN <<heapAnalysis.allocationsCount - 1000, heapAnalysis.leakedBytes>>
    ELSE <<0, 0>>

\* what the sequential order of performCrashAnalysis returns for the snapshot
SequentialResult(rnd) == analyzeData(snapshot, rnd[1], rnd[2])

C24_EvidenceBeforeClassifier ==
    /\ "evidence" \in DOMAIN slots
    /\ "crashPattern" \notin DOMAIN slots
    /\ slots["evidence"] # <<>>

(***************************************************************************)
(* C25: the confidence as an integer.                                      *)
(***************************************************************************)
\* C25: confidence is an integer for every snapshot, also when the number of
\* modules with symbols does not divide evenly into the total.
C25_ConfidenceIsInteger ==
    \A k \in Calls : Returned(k) => IsInteger(Analysis(k).confidence)

\* the claim's example: 1 of 3 modules has symbols, the confidence is 25/3
\* above an integer
C25_OneOfThree ==
    /\ Len(snapshot.modules) = 3
    /\ Cardinality(ModulesWithSymbols) = 1
    /\ Len(results) > 0
    /\ Returned(1)
    /\ Analysis(1).confidence.den = 3

\* the confidence is an integer when all the modules, or none of at least
\* one, have symbols
C25_IntegerWhenAllOrNone ==
    \A k \in Calls :
        (/\ Returned(k)
         /\ Len(snapshot.modules) > 0
         /\ Cardinality(ModulesWithSymbols) \in {0, Len(snapshot.modules)})
            => IsInteger(Analysis(k).confidence)

(***************************************************************************)
(* C26: deadlockInfo and its default.                                      *)
(***************************************************************************)
NumberOfWaitingWaiters ==
    Cardinality({i \in 1..Len(snapshot.threads) : IsWaitingWaiter(snapshot.threads[i])})

\* C26: deadlockInfo is always present, with a boolean detected that is true
\* if and only if at least one cycle entry was produced; with fewer than two
\* threads that wait on wait objects, or with no handle shared by any pair of
\* them, detected is false.
C26_DeadlockInfoDefault ==
    \A k \in Calls :
        Returned(k) =>
            /\ "deadlockInfo" \in DOMAIN Analysis(k)
            /\ "detected" \in DOMAIN Analysis(k).deadlockInfo
            /\ Analysis(k).deadlockInfo.detected \in BOOLEAN
            /\ Analysis(k).deadlockInfo.detected <=> Len(CyclesOf(k)) > 0
            /\ (\/ NumberOfWaitingWaiters < 2
                \/ SharingPairs(IsWaitingWaiter) = {})
                   => Analysis(k).deadlockInfo.detected = FALSE

\* two threads wait, each on its own handle: no entry, detected = false
C26_Witness ==
    /\ NumberOfWaitingWaiters = 2
    /\ SharingPairs(IsWaitingWaiter) = {}
    /\ Len(results) > 0
    /\ Returned(1)
    /\ Analysis(1).deadlockInfo = [detected |-> FALSE, cycles |-> <<>>]

\* no thread at all: the bare default
C26_NoThreads ==
    /\ snapshot.threads = <<>>
    /\ Len(results) > 0
    /\ Returned(1)
    /\ Analysis(1).deadlockInfo = [detected |-> FALSE]

(***************************************************************************)
(* C27: the category and the exception code.                               *)
(***************************************************************************)
\* the category that goes with each of the four codes the classifier knows
CategoryOfCode ==
    ("0xC00000FD" :> "Stack Overflow") @@ ("0xC0000374" :> "Heap Corruption")
        @@ ("0xC0000094" :> "Divide By Zero") @@ ("0xC0000005" :> "Access Violation")

\* C27: whatever the description, an exception with code '0xC00000FD' is
\* classified 'Stack Overflow', '0xC0000374' 'Heap Corruption', '0xC0000094'
\* 'Divide By Zero' and '0xC0000005' 'Access Violation'.
C27_CategoryAgreesWithCode ==
    \A k \in Calls :
        (Returned(k) /\ snapshot.exception.code \in DOMAIN CategoryOfCode)
            => Analysis(k).crashType = CategoryOfCode[snapshot.exception.code]

\* the decoder's own stack-overflow exception: stackOverflow = true by code,
\* and the category is 'Access Violation'
C27_DecoderStackOverflow ==
    /\ snapshot.exception.code = "0xC00000FD"
    /\ snapshot.exception.description = EXCEPTION_CODES["0xC00000FD"]
    /\ Len(results) > 0
    /\ Returned(1)
    /\ Analysis(1).stackOverflow
    /\ Analysis(1).crashType = "Access Violation"

\* the decoder's own divide-by-zero exception is 'Access Violation' as well
C27_DecoderDivideByZero ==
    /\ snapshot.exception.code = "0xC0000094"
    /\ snapshot.exception.description = EXCEPTION_CODES["0xC0000094"]
    /\ Len(results) > 0
    /\ Returned(1)
    /\ Analysis(1).crashType = "Access Violation"

\* a keyword of a rule that comes before the code's own rule occurs in the
\* description
EarlierKeywordInDescription ==
    \E i \in 1..Len(CRASH_PATTERNS) :
        /\ RuleMatches(CRASH_PATTERNS[i], toLowerCase(snapshot.exception.description))
        /\ \E j \in (i + 1)..Len(CRASH_PATTERNS) :
               formatCrashType(CRASH_PATTERNS[j].name) = CategoryOfCode[snapshot.exception.code]

\* what the code does: the category agrees with the code unless a keyword of
\* an earlier rule occurs in the description
C27_AgreesUnlessEarlierKeyword ==
    \A k \in Calls :
        (Returned(k) /\ snapshot.exception.code \in DOMAIN CategoryOfCode)
            => (Analysis(k).crashType = CategoryOfCode[snapshot.exception.code]
                    <=> ~EarlierKeywordInDescription)

(***************************************************************************)
(* C13: the decoder boundary.                                              *)
(***************************************************************************)
\* the first four bytes are 4D 44 4D 50, the value 0x504D444D little-endian
HasMinidumpSignature(bytes) ==
    Len(bytes) >= 4 /\ SubSeq(bytes, 1, 4) = <<77, 68, 77, 80>>

\* call i of handleFileUpload runs to its end in this step
Finishes(i) == uploads[i].pc = "parsing" /\ uploads'[i].pc = "finished"

RejectedAsInvalid(upload) ==
    /\ upload.pc = "finished"
    /\ upload.engineInput = None
    /\ upload.toast = Some(toastOf("Analysis Failed", "Invalid dump file format"))

\* C13: for a file whose first four bytes, read little-endian, are not the
\* signature 0x504D444D (files of fewer than four bytes included), parseFile
\* rejects with 'Invalid dump file format', and the call of handleFileUpload
\* neither calls analyzeData nor stores anything in currentFile or
\* analysisData.
C13_DecoderBoundary ==
    [][\A i \in 1..Len(uploads) :
           (Finishes(i) /\ ~HasMinidumpSignature(files[i].bytes)) =>
               /\ RejectedAsInvalid(uploads'[i])
               /\ currentFile' = currentFile
               /\ analysisData' = analysisData]_vars

\* a file of fewer than four bytes and a file of four bytes that hold the
\* signature in big-endian order have both been rejected
C13_Witness ==
    /\ Len(uploads) = 2
    /\ Len(files[1].bytes) < 4
    /\ files[2].bytes = <<80, 77, 68, 77>>
    /\ RejectedAsInvalid(uploads[1])
    /\ RejectedAsInvalid(uploads[2])
    /\ analysisData = None
    /\ currentFile = None

\* a file with the signature reaches the engine and its analysis is stored
C13_ValidFileAnalyzed ==
    /\ Len(uploads) = 1
    /\ HasMinidumpSignature(files[1].bytes)
    /\ Len(files[1].bytes) = MaxFileBytes
    /\ uploads[1].pc = "finished"
    /\ IsSome(uploads[1].engineInput)
    /\ IsSome(analysisData)
    /\ Get(analysisData).analysis.crashType = "Access Violation"

(***************************************************************************)
(* C28: the upload flow ends.                                              *)
(***************************************************************************)
InFlight(i) == i <= Len(uploads) /\ uploads[i].pc = "parsing"

Finished(i) == i <= Len(uploads) /\ uploads[i].pc = "finished"

Succeeded(upload) ==
    /\ upload.pc = "finished"
    /\ IsSome(upload.toast)
    /\ Get(upload.toast).title = "Analysis Complete"

Failed(upload) ==
    /\ upload.pc = "finished"
    /\ IsSome(upload.toast)
    /\ Get(upload.toast).title = "Analysis Failed"

\* a result the engine can return for the snapshot the decoder produced
IsAnalysisOf(analyzed, parsed) ==
    \E rnd \in RandomDrawsOf(parsed) :
        analyzeData(parsed, rnd[1], rnd[2]) = [threw |-> FALSE, value |-> analyzed]

\* the step in which call i ends: with the Dashboard on one analyzed result,
\* or with currentFile and analysisData as they were
EndsRight(i) ==
    /\ ~isAnalyzing'
    /\ Succeeded(uploads'[i]) \/ Failed(uploads'[i])
    /\ Succeeded(uploads'[i]) =>
           /\ DashboardShown'
           /\ IsAnalysisOf(Get(analysisData'), Get(uploads'[i].engineInput))
           /\ currentFile' = Some(Get(analysisData').fileInfo)
    /\ Failed(uploads'[i]) => UNCHANGED <<currentFile, analysisData>>

\* C28: every call of handleFileUpload ends, whether decoding and analysis
\* succeed or throw, and isAnalyzing is false when it has; on success
\* currentFile and analysisData are set from the same analyzed result and the
\* Dashboard is shown, on failure both keep their previous values.
C28_UploadFlowEnds ==
    /\ \A i \in 1..MaxUploads : [](InFlight(i) => <>(Finished(i) /\ ~isAnalyzing))
    /\ [][\A i \in 1..Len(uploads) : Finishes(i) => EndsRight(i)]_vars

\* the steps in which a pending call ends are the steps UploadSettles
C28_EndsIsSettles ==
    [][UploadEnds <=> UploadSettles]_vars

\* a first call failed from the upload screen, which was shown again with
\* nothing stored; a second one then succeeded and the Dashboard is shown
C28_Witness ==
    /\ Len(uploads) = 2
    /\ Failed(uploads[1])
    /\ Succeeded(uploads[2])
    /\ ~isAnalyzing
    /\ DashboardShown
    /\ Get(currentFile).name = files[2].name

\* a failed call from the upload screen: nothing stored, the screen is back
C28_FailureFromUploadScreen ==
    /\ Len(uploads) = 1
    /\ Failed(uploads[1])
    /\ ~isAnalyzing
    /\ currentFile = None
    /\ analysisData = None

(***************************************************************************)
(* C30: the validation gate of FileUpload.                                 *)
(***************************************************************************)
endsWith(s, p) == Len(p) <= Len(s) /\ SubSeq(s, Len(s) - Len(p) + 1, Len(s)) = p

\* the lower-cased name ends with '.dmp' or '.mdmp' and the size is at most
\* 500MB
PassesTheGate(file) ==
    /\ endsWith(toLowerCase(file.name), ".dmp") \/ endsWith(toLowerCase(file.name), ".mdmp")
    /\ file.size <= 500 * 1024 * 1024

\* handleFile is called in this step
HandlesFile == Len(handled') = Len(handled) + 1

LastHandled == handled'[Len(handled')]

IsErrorToast(toast) ==
    /\ toast # None
    /\ Get(toast).title \in {"Invalid file type", "File too large"}

\* C30: handleFile passes the file on to onFileUpload, and starts the progress
\* timer, if and only if its lower-cased name ends with '.dmp' or '.mdmp' and
\* its size is at most 500MB; any other file is rejected with an error toast,
\* onFileUpload is not called and uploadProgress is left unchanged.
C30_ValidationGate ==
    [][HandlesFile =>
          IF PassesTheGate(LastHandled.file)
          THEN /\ LastHandled.toast = None
               /\ files' = Append(files, LastHandled.file)
               /\ Len(uploads') = Len(uploads) + 1
               /\ uploads'[Len(uploads')].pc = "parsing"
               /\ timers' = timers + 1
               /\ uploadProgress' = 0
          ELSE /\ IsErrorToast(LastHandled.toast)
               /\ UNCHANGED <<files, uploads, isAnalyzing, uploadProgress, timers>>]_vars

\* a file without an extension named 'dmp' was rejected while the progress
\* of an earlier, failed upload stood at 30, and stayed there; the earlier
\* file had passed
C30_Witness ==
    /\ Len(handled) = 2
    /\ handled[1].valid
    /\ handled[2].file.name = "dmp"
    /\ handled[2].file.size <= maxSize
    /\ IsErrorToast(handled[2].toast)
    /\ Len(uploads) = 1
    /\ uploadProgress = 30

\* a file of exactly 500MB with an upper-case extension was passed on
C30_UpperCaseAtTheLimit ==
    /\ Len(handled) = 1
    /\ handled[1].file = SizedFile("CRASH.MDMP", maxSize, <<77, 68, 77, 80>>)
    /\ handled[1].valid
    /\ Len(uploads) = 1
    /\ files = <<handled[1].file>>

\* a file one byte over 500MB was rejected as too large
C30_TooLarge ==
    /\ Len(handled) = 1
    /\ handled[1].file.size = maxSize + 1
    /\ handled[1].toast = Some(toastOf("File too large", "File size must be less than 500MB"))
    /\ uploads = <<>>

(***************************************************************************)
(* C29: uploads and resets as FileUpload and the Dashboard let them        *)
(* happen.                                                                 *)
(***************************************************************************)
SomeUploadInFlight == \E i \in 1..Len(uploads) : InFlight(i)

\* handleReset clears a currentFile and an analysisData that were set
ResetClears == DashboardShown /\ currentFile' = None /\ analysisData' = None

\* the Dashboard appears with the result of upload i
DashboardAppearsWith(i) ==
    /\ ~DashboardShown
    /\ Finishes(i)
    /\ currentFile' # None
    /\ analysisData' # None

\* a finished upload never acts again, so an upload started before a reset
\* can make the Dashboard appear after it only if it is in flight at the
\* reset
NoUploadSurvivesReset == [][ResetClears => ~SomeUploadInFlight]_vars

\* the Dashboard only ever appears with the result of the upload started
\* last
DashboardOfLatestUpload ==
    [][\A i \in 1..Len(uploads) : DashboardAppearsWith(i) => i = Len(uploads)]_vars

\* C29: isAnalyzing is true in every state in which some handleFileUpload
\* call has started and not yet finished; and no upload started before a
\* handleReset that cleared currentFile and analysisData later makes the
\* Dashboard appear with its result.
C29_NoOverlapNoStaleDashboard ==
    /\ [](SomeUploadInFlight => isAnalyzing)
    /\ NoUploadSurvivesReset
    /\ DashboardOfLatestUpload

\* after a reset of the Dashboard of the first upload, a second upload is in
\* flight, with isAnalyzing true and no Dashboard
C29_Witness ==
    /\ Len(uploads) = 2
    /\ Finished(1)
    /\ Succeeded(uploads[1])
    /\ InFlight(2)
    /\ isAnalyzing
    /\ ~DashboardShown

====
